---------------------------- MODULE Spec2Model ----------------------------
(***************************************************************************)
(* pgmanager: the provisioning orchestrator (project.Manager) over the     *)
(* relational metadata store (meta.Store / meta.PostgresStore) and the     *)
(* database engine client (db.PostgresClient).                             *)
(*                                                                         *)
(* Every store statement and every engine statement is one atomic step of  *)
(* the calling process; a Manager call is the sequence of its steps,       *)
(* driven by call[p].pc.  Each statement may fail (an unavailable store or *)
(* engine).  Optional values (a Go pointer that may be nil) are sets       *)
(* of at most one element: {} is nil.                                      *)
(***************************************************************************)
EXTENDS Integers, Sequences, FiniteSets, TLC

\* ---------------------------------------------------------------- bounds
MaxCalls == 3        \* Manager calls started in one behaviour, one caller
MaxConcCalls == 2    \* Manager calls started in one behaviour, two callers
MaxTime  == 1        \* the clock runs 0..MaxTime
MaxCleanupTime == 3  \* the clock of the Cleanup runs ends here
MaxCleanupCalls == 2 \* Cleanup calls started in one behaviour
MaxPairCalls == 3    \* calls started in one behaviour on one (env, PR) pair
MaxNameLen == 3      \* every name of at most this many characters is an input
MaxSuffixLen == 3    \* characters after "pr_" in an environment token

\* ------------------------------------------------------- program constants
DefaultTTL == 1      \* cfg.Cleanup.DefaultTTL, in clock units

validEnvs == {"prod", "dev", "staging", "pr"}

MaxPRNumber == 1000000

\* cfg.Postgres.Host, cfg.Postgres.Port, cfg.Postgres.SSLMode
PostgresHost == "localhost"
PostgresPort == 5432
PostgresSSLMode == "require"

\* ------------------------------------------------------------ input sets
ProjectNames == {"app", "web"}
LongName == "aaaaaaaaaaaaaaaaaaaaaaaaaaaaaaaaa"
InvalidNames == {"x", "Up", "root", LongName}
EnvInputs    == {"dev", "pr", "qa"}
PRInputs     == {{}, {1}}
OlderThanInputs == {0, 1, 3}
PRArgInputs  == {{}, {-1}, {0}, {1}, {MaxPRNumber + 1}}
Procs        == {1, 2}

VARIABLES
    projects,    \* store: rows of table projects
    databases,   \* store: rows of table databases
    nextPID,     \* store: AUTOINCREMENT of projects.id
    nextDBID,    \* store: AUTOINCREMENT of databases.id
    liveDBs,     \* engine: names of the databases on the cluster
    roles,       \* engine: login role name -> password
    now,         \* the wall clock
    active,      \* the callers that issue Manager calls
    ncalls,      \* Manager calls started so far
    draws,       \* reads of crypto/rand so far
    call         \* per caller: the Manager call in progress or just returned

vars == <<projects, databases, nextPID, nextDBID, liveDBs, roles, now, active,
          ncalls, draws, call>>

\* ------------------------------------------------------------ errors
OK == "nil"
StoreDown  == "store unavailable"
EngineDown == "engine unavailable"

Wrap(prefix, cause) == prefix \o ": " \o cause

ErrInvalidEnv(env) ==
    "invalid environment '" \o env \o "', must be one of: prod, dev, staging, pr"
ErrPRRequired == "PR number is required for PR databases"
ErrProjectNotFound(name) == "project '" \o name \o "' not found"
ErrProjectExists(name) == "project '" \o name \o "' already exists"
ErrDatabaseExists(project, env) ==
    "database already exists for " \o project \o "/" \o env
ErrDatabaseNotFound == "database not found"
ErrStoreProjectNotFound(name) == "project not found: " \o name
ErrStoreDatabaseNotFound(name) == "database not found: " \o name
ErrStoreMetadata(cause) == Wrap("failed to store database metadata", cause)

\* ------------------------------------------------------------ naming
\* the characters of the names that are given as input
Chars(name) ==
    CASE name = "app" -> <<"a", "p", "p">>
      [] name = "web" -> <<"w", "e", "b">>
      [] name = "x" -> <<"x">>
      [] name = "Up" -> <<"U", "p">>
      [] name = "root" -> <<"r", "o", "o", "t">>
      [] name = LongName -> [i \in 1..Len(LongName) |-> "a"]

LowerCase ==
    {"a", "b", "c", "d", "e", "f", "g", "h", "i", "j", "k", "l", "m",
     "n", "o", "p", "q", "r", "s", "t", "u", "v", "w", "x", "y", "z"}

Digits == {"0", "1", "2", "3", "4", "5", "6", "7", "8", "9"}

\* the string whose bytes are cs
RECURSIVE Join(_)
Join(cs) == IF cs = <<>> THEN "" ELSE cs[1] \o Join(Tail(cs))

\* ^[a-z][a-z0-9_]*$ on the bytes of the name
validNameRegex_AnyFirst(cs) ==
    /\ Len(cs) >= 1
    /\ \A i \in 1..Len(cs) : cs[i] \in LowerCase \cup Digits \cup {"_"}

validNameRegex(cs) ==
    /\ Len(cs) >= 1
    /\ cs[1] \in LowerCase
    /\ \A i \in 2..Len(cs) : cs[i] \in LowerCase \cup Digits \cup {"_"}

reservedNames == {"postgres", "template0", "template1", "admin", "root", "system"}

\* ValidateName on the bytes of the name
ValidateNameBytes(cs) ==
    IF Len(cs) < 2 THEN "project name must be at least 2 characters"
    ELSE IF Len(cs) > 32 THEN "project name must be at most 32 characters"
    ELSE IF ~validNameRegex(cs)
    THEN "project name must start with a letter and contain only lowercase letters, numbers, and underscores"
    ELSE IF Join(cs) \in reservedNames THEN "'" \o Join(cs) \o "' is a reserved name"
    ELSE OK

ValidateName(name) == ValidateNameBytes(Chars(name))

ValidateEnv(env) == IF env \in validEnvs THEN OK ELSE ErrInvalidEnv(env)

DatabaseName_NoPR(project, env, prNumber) == project \o "_" \o env

DatabaseName(project, env, prNumber) ==
    IF env = "pr" /\ prNumber # {}
    THEN project \o "_pr_" \o ToString(CHOOSE n \in prNumber : TRUE)
    ELSE project \o "_" \o env

UserName(dbName) == dbName \o "_user"

\* 16 bytes of crypto/rand, hex encoded: the k-th read differs from the others
GeneratePassword(k) == "rnd" \o ToString(k)

\* rand.Read returned an error: "fallback_password_" + hex.EncodeToString(bytes[:8])
\* of the bytes that make() zeroed
GeneratePasswordFallback == "fallback_password_" \o "0000000000000000"

\* ------------------------------------------------------------ store (SQL)
\* SELECT ... FROM projects WHERE name = ?  (nil, nil on no rows)
StoreGetProject(P, name) == {p \in P : p.name = name}

\* SELECT ... FROM databases WHERE project_id = ? AND env = ?
\*   AND pr_number = ? / AND pr_number IS NULL
StoreGetDatabase(D, projectID, env, prNumber) ==
    {d \in D : d.project_id = projectID /\ d.env = env /\ d.pr_number = prNumber}

\* SELECT ... FROM databases WHERE project_id = ?
StoreListDatabases(D, projectID) == {d \in D : d.project_id = projectID}

\* INSERT INTO projects (name): name is UNIQUE
StoreCanInsertProject_NoUnique(P, name) == TRUE

StoreCanInsertProject(P, name) == \A p \in P : p.name # name

\* INSERT INTO databases: name is UNIQUE, project_id REFERENCES projects(id)
StoreCanInsertDatabase_NoUnique(P, D, projectID, name) == \E p \in P : p.id = projectID

StoreCanInsertDatabase(P, D, projectID, name) ==
    /\ \A d \in D : d.name # name
    /\ \E p \in P : p.id = projectID

\* DELETE FROM projects WHERE id = ?  with ON DELETE CASCADE
StoreCascade_None(D, projectID) == {}

StoreCascade(D, projectID) == {d \in D : d.project_id = projectID}

\* DELETE FROM databases WHERE name = ?
StoreRowsByName(D, name) == {d \in D : d.name = name}

\* SELECT ... WHERE expires_at IS NOT NULL AND expires_at < datetime('now')
StoreGetExpiredDatabases(D, t) ==
    {d \in D : d.expires_at # {} /\ \A x \in d.expires_at : x < t}

\* cutoff := time.Now().Add(-olderThan); SELECT ... WHERE env = ? AND created_at < ?
StoreGetDatabasesOlderThan_AnyEnv(D, env, olderThan, t) ==
    {d \in D : d.created_at < t - olderThan}

StoreGetDatabasesOlderThan(D, env, olderThan, t) ==
    {d \in D : d.env = env /\ d.created_at < t - olderThan}

\* Store.DeleteDatabase: the rows left by DELETE FROM databases WHERE name = ?
StoreAfterDelete_Keeps(D, name, fail) == D

StoreAfterDelete(D, name, fail) ==
    IF fail THEN D ELSE D \ StoreRowsByName(D, name)

\* Store.DeleteDatabase: the error of DELETE FROM databases WHERE name = ?
StoreDeleteDatabase_NoRowCheck(D, name, fail) ==
    IF fail THEN "failed to delete database: " \o "store unavailable" ELSE "nil"

StoreDeleteDatabase(D, name, fail) ==
    IF fail THEN "failed to delete database: " \o "store unavailable"
    ELSE IF StoreRowsByName(D, name) = {} THEN "database not found: " \o name
    ELSE "nil"

\* ------------------------------------------------------------ engine
\* DROP DATABASE IF EXISTS: a database that does not exist is no error
PgCanDropDatabase_MustExist(L, dbName) == dbName \in L

PgCanDropDatabase(L, dbName) == TRUE

PgDropDatabase(L, dbName) == L \ {dbName}

\* DROP USER IF EXISTS
PgDropUser(R, userName) == [u \in (DOMAIN R) \ {userName} |-> R[u]]

\* CREATE DATABASE ... OWNER ...: the database must not exist, the role must
PgCanCreateDatabase_IfNotExists(L, R, dbName, userName) == userName \in DOMAIN R

PgCanCreateDatabase(L, R, dbName, userName) ==
    dbName \notin L /\ userName \in DOMAIN R

\* CREATE USER ... WITH PASSWORD ...
PgCreateUser(R, userName, password) ==
    [u \in (DOMAIN R) \cup {userName} |-> IF u = userName THEN password ELSE R[u]]


\* ------------------------------------------------------------ call records
Snapshot ==
    [projects |-> projects, databases |-> databases,
     liveDBs |-> liveDBs, roles |-> roles]

EmptySnapshot ==
    [projects |-> {}, databases |-> {}, liveDBs |-> {}, roles |-> <<>>]

\* A call's locals.  trace, pre, pgErr, returned, removed and delDone record
\* what the call did; no step reads them.  info and infos are the values that
\* GetDatabase and ListDatabases return, cancelled is the state of the ctx
\* that the caller passed.
NewCall(op, project, env, pr, pc, snap) ==
    [op |-> op, project |-> project, env |-> env, pr |-> pr, pc |-> pc,
     proj |-> {}, rec |-> {}, dbName |-> "", userName |-> "", password |-> "",
     expiresAt |-> {}, todo |-> <<>>, returned |-> {}, removed |-> {},
     delDone |-> FALSE, pgRet |-> "", pgErr |-> OK, cause |-> OK,
     olderThan |-> 0, expired |-> {}, deleted |-> <<>>, t0 |-> 0,
     prev |-> [cleanup |-> FALSE, clean |-> FALSE, olderThan |-> 0, t0 |-> 0,
               deleted |-> <<>>],
     info |-> {}, infos |-> <<>>, cancelled |-> FALSE,
     trace |-> <<>>, res |-> OK, pre |-> snap]

NoCall == NewCall("None", "", "", {}, "idle", EmptySnapshot)

Return(c, err) == [c EXCEPT !.pc = "ret", !.res = err]

Log(c, ev, name, ok) ==
    [c EXCEPT !.trace = Append(@, [ev |-> ev, name |-> name, ok |-> ok])]

The(S) == CHOOSE x \in S : TRUE

NamesOf(rows) == {d.name : d \in rows}

\* All orders in which the rows of S can be visited.
Orders(S) ==
    {q \in [1..Cardinality(S) -> S] : \A i, j \in 1..Cardinality(S) : i # j => q[i] # q[j]}

\* ------------------------------------------------- Manager.CreateProject
CpValidate_Skipped(c) == c

CpValidate(c) ==
    IF ValidateName(c.project) # OK THEN Return(c, ValidateName(c.project)) ELSE c

CpAfterGet(c, err, existing) ==
    IF err # OK THEN Return(c, Wrap("failed to check project", err))
    ELSE IF existing # {} THEN Return(c, ErrProjectExists(c.project))
    ELSE [c EXCEPT !.pc = "cp_create"]

CpAfterCreate(c, err) ==
    IF err # OK THEN Return(c, Wrap("failed to create project", err))
    ELSE Return(c, OK)

\* ------------------------------------------------- Manager.CreateDatabase
\* var expiresAt *time.Time, set for env pr from the clock read at t
ExpiresAt_Always(env, t) == {t + DefaultTTL}

ExpiresAt(env, t) == IF env = "pr" THEN {t + DefaultTTL} ELSE {}

CdValidate(c) ==
    IF ValidateEnv(c.env) # OK THEN Return(c, ValidateEnv(c.env))
    ELSE IF c.env = "pr" /\ c.pr = {} THEN Return(c, ErrPRRequired)
    ELSE c

CdAfterGetProject(c, err, proj) ==
    IF err # OK THEN Return(c, Wrap("failed to get project", err))
    ELSE IF proj = {} THEN Return(c, ErrProjectNotFound(c.project))
    ELSE [c EXCEPT !.proj = proj, !.pc = "cd_getdb"]

CdAfterGetDatabase_IgnoresExisting(c, err, existing, pw, t) ==
    IF err # OK THEN Return(c, Wrap("failed to check database", err))
    ELSE LET n == DatabaseName(c.project, c.env, c.pr) IN
         [c EXCEPT !.dbName = n, !.userName = UserName(n), !.password = pw,
                   !.expiresAt = ExpiresAt(c.env, t),
                   !.pc = "pg_user", !.pgRet = "cd_create"]

CdAfterGetDatabase(c, err, existing, pw, t) ==
    IF err # OK THEN Return(c, Wrap("failed to check database", err))
    ELSE IF existing # {} THEN Return(c, ErrDatabaseExists(c.project, c.env))
    ELSE LET n == DatabaseName(c.project, c.env, c.pr) IN
         [c EXCEPT !.dbName = n, !.userName = UserName(n), !.password = pw,
                   !.expiresAt = ExpiresAt(c.env, t),
                   !.pc = "pg_user", !.pgRet = "cd_create"]

CdAfterCreate_Continues(c, err) == [c EXCEPT !.pc = "cd_store"]

CdAfterCreate(c, err) ==
    IF err # OK THEN Return(c, Wrap("failed to create database", err))
    ELSE [c EXCEPT !.pc = "cd_store"]

CdAfterStore_NoCompensation(c, err) ==
    IF err # OK THEN Return(c, ErrStoreMetadata(err)) ELSE Return(c, OK)

CdAfterStore(c, err) ==
    IF err # OK THEN [c EXCEPT !.cause = err, !.pc = "pg_term", !.pgRet = "cd_comp"]
    ELSE Return(c, OK)

\* _ = m.pg.DropDatabase(...): the drop's own error is discarded
CdAfterCompensate(c, err) == Return(c, ErrStoreMetadata(c.cause))

\* cmd dbCreate: the PR number argument is read only for env pr
DbCreateArgs(c) ==
    IF c.env = "pr"
    THEN IF c.pr = {} THEN Return(c, ErrPRRequired) ELSE CdValidate(c)
    ELSE CdValidate([c EXCEPT !.pr = {}])

\* Server.createDatabase: the request is checked, then passed to the Manager
ApiCreateDatabase(c) ==
    IF c.pr # {} /\ The(c.pr) <= 0 THEN Return(c, "PR number must be positive")
    ELSE IF c.pr # {} /\ The(c.pr) > MaxPRNumber
    THEN Return(c, "PR number must be less than " \o ToString(MaxPRNumber))
    ELSE CdValidate(c)

\* ------------------------------------------------- Manager.GetDatabase
\* fmt.Sprintf("postgresql://%s:%s@%s:%d/%s?sslmode=disable", ...): the pieces
\* of the formatted string
ConnectionString(host, port, dbName, userName, password) ==
    <<"postgresql://", userName, ":", password, "@", host, ":", ToString(port),
      "/", dbName, "?sslmode=disable">>

\* the DatabaseInfo that GetDatabase and ListDatabases build from a record
DatabaseInfo(project, env, d) ==
    [Project |-> project, Env |-> env, PRNumber |-> d.pr_number,
     DatabaseName |-> d.name, UserName |-> d.user_name, Password |-> d.password,
     Host |-> PostgresHost, Port |-> PostgresPort,
     ConnString |-> ConnectionString(PostgresHost, PostgresPort, d.name,
                                     d.user_name, d.password),
     CreatedAt |-> d.created_at, ExpiresAt |-> d.expires_at]

GdValidate(c) ==
    IF ValidateEnv(c.env) # OK THEN Return(c, ValidateEnv(c.env)) ELSE c

GdAfterGetProject(c, err, proj) ==
    IF err # OK THEN Return(c, Wrap("failed to get project", err))
    ELSE IF proj = {} THEN Return(c, ErrProjectNotFound(c.project))
    ELSE [c EXCEPT !.proj = proj, !.pc = "gd_getdb"]

GdAfterGetDatabase_Drops(c, err, rec) ==
    IF err # OK THEN Return(c, Wrap("failed to get database", err))
    ELSE IF rec = {} THEN Return(c, ErrDatabaseNotFound)
    ELSE [c EXCEPT !.rec = rec, !.dbName = The(rec).name,
                   !.userName = The(rec).user_name,
                   !.pc = "pg_term", !.pgRet = "dd_drop"]

GdAfterGetDatabase(c, err, rec) ==
    IF err # OK THEN Return(c, Wrap("failed to get database", err))
    ELSE IF rec = {}
    THEN Return(c, "database not found for " \o c.project \o "/" \o
                   (IF c.pr # {} THEN "pr_" \o ToString(The(c.pr)) ELSE c.env))
    ELSE Return([c EXCEPT !.rec = rec,
                          !.info = {DatabaseInfo(c.project, c.env, The(rec))}], OK)

\* ------------------------------------------------- Manager.ListDatabases
\* ORDER BY name, for the names that the listed stores hold
NameRank(name) ==
    CASE name = "app_dev" -> 1
      [] name = "app_pr_1" -> 2
      [] name = "app_pr_2" -> 3

ByName(S) ==
    CHOOSE q \in Orders(S) :
        \A i, j \in 1..Cardinality(S) : i < j => NameRank(q[i].name) < NameRank(q[j].name)

LdAfterGetProject(c, err, proj) ==
    IF err # OK THEN Return(c, Wrap("failed to get project", err))
    ELSE IF proj = {} THEN Return(c, ErrProjectNotFound(c.project))
    ELSE [c EXCEPT !.proj = proj, !.pc = "ld_list"]

\* databases, err = m.store.ListAllDatabases(); if err != nil { return }
LdAfterListAll(c, err, rows) ==
    IF err # OK THEN Return(c, Wrap("failed to list databases", err))
    ELSE IF rows = <<>> THEN Return(c, OK)
    ELSE [c EXCEPT !.todo = rows, !.pc = "ld_conv"]

\* databases, err = m.store.ListDatabases(project.ID) assigns the err that
\* the else block declared; the err tested after the block is still nil
LdAfterList(c, err, rows) ==
    IF err # OK \/ rows = <<>> THEN Return(c, OK)
    ELSE [c EXCEPT !.todo = rows, !.pc = "ld_conv"]

\* the loop over the records: ListProjects is called for a record whose
\* project is not in the cache, its error is dropped; k is the first record
\* at which it succeeds
LdConvert(c, P, k) ==
    Return([c EXCEPT !.infos =
                [i \in 1..Len(c.todo) |->
                    LET d == c.todo[i]
                        owner == {q \in P : q.id = d.project_id} IN
                    DatabaseInfo(IF i >= k /\ owner # {} THEN The(owner).name ELSE "",
                                 d.env, d)]],
           OK)

\* ------------------------------------------------- Manager.DeleteDatabase
DdValidate(c) ==
    IF ValidateEnv(c.env) # OK THEN Return(c, ValidateEnv(c.env)) ELSE c

DdAfterGetProject(c, err, proj) ==
    IF err # OK THEN Return(c, Wrap("failed to get project", err))
    ELSE IF proj = {} THEN Return(c, ErrProjectNotFound(c.project))
    ELSE [c EXCEPT !.proj = proj, !.pc = "dd_getdb"]

DdAfterGetDatabase(c, err, rec) ==
    IF err # OK THEN Return(c, Wrap("failed to get database", err))
    ELSE IF rec = {} THEN Return(c, ErrDatabaseNotFound)
    ELSE [c EXCEPT !.rec = rec, !.dbName = The(rec).name,
                   !.userName = The(rec).user_name,
                   !.pc = "pg_term", !.pgRet = "dd_drop"]

DdAfterDrop_Continues(c, err) == [c EXCEPT !.pc = "dd_del"]

DdAfterDrop(c, err) ==
    IF err # OK THEN Return(c, Wrap("failed to drop database", err))
    ELSE [c EXCEPT !.pc = "dd_del"]

DdAfterDelete_SwallowsError(c, err) == Return(c, OK)

DdAfterDelete(c, err) ==
    IF err # OK THEN Return(c, Wrap("failed to delete database metadata", err))
    ELSE Return(c, OK)

\* ------------------------------------------------- Manager.DeleteProject
\* Store.DeleteProject, first statement: GetProject
DpAfterGet_SwallowsNotFound(c, err, proj) ==
    IF err # OK THEN Return(c, err)
    ELSE IF proj = {} THEN Return(c, OK)
    ELSE [c EXCEPT !.proj = proj, !.pc = "dp_list"]

DpAfterGet(c, err, proj) ==
    IF err # OK THEN Return(c, err)
    ELSE IF proj = {} THEN Return(c, ErrStoreProjectNotFound(c.project))
    ELSE [c EXCEPT !.proj = proj, !.pc = "dp_list"]

\* Store.DeleteProject, second statement: ListDatabases
DpAfterList(c, err, rows, order) ==
    IF err # OK THEN Return(c, err)
    ELSE [c EXCEPT !.returned = rows, !.todo = order, !.pc = "dp_del"]

\* the loop over the returned databases
DpNext(c) ==
    IF c.todo = <<>> THEN Return(c, OK)
    ELSE [c EXCEPT !.dbName = Head(c.todo).name,
                   !.userName = Head(c.todo).user_name,
                   !.pc = "pg_term", !.pgRet = "dp_drop"]

\* Store.DeleteProject, third statement: DELETE FROM projects
DpAfterDelete(c, err, removed) ==
    IF err # OK THEN Return(c, Wrap("failed to delete project", err))
    ELSE DpNext([c EXCEPT !.removed = removed, !.delDone = TRUE])

DpAfterDrop_Aborts(c, err) ==
    IF err # OK THEN Return(c, OK) ELSE DpNext([c EXCEPT !.todo = Tail(@)])

\* a failed drop is printed as a warning; the loop goes on
DpAfterDrop(c, err) == DpNext([c EXCEPT !.todo = Tail(@)])

\* ------------------------------------------------- Manager.Cleanup
ClAfterExpired(c, err, expired) ==
    IF err # OK THEN Return(c, Wrap("failed to get expired databases", err))
    ELSE [c EXCEPT !.expired = expired, !.pc = "cl_old"]

\* toDelete: a map keyed by name, ranged over in any order
ClCombine_NoDedup(expired, oldPR) ==
    {e \o o : e \in Orders(expired), o \in Orders(oldPR)}

ClCombine(expired, oldPR) ==
    LET names == NamesOf(expired) \cup NamesOf(oldPR)
        toDelete == [n \in names |->
                        IF \E d \in oldPR : d.name = n
                        THEN CHOOSE d \in oldPR : d.name = n
                        ELSE CHOOSE d \in expired : d.name = n]
    IN  Orders({toDelete[n] : n \in names})

ClNext(c) ==
    IF c.todo = <<>> THEN Return(c, OK)
    ELSE [c EXCEPT !.dbName = Head(c.todo).name,
                   !.userName = Head(c.todo).user_name,
                   !.pc = "pg_term", !.pgRet = "cl_drop"]

ClAfterOldPR(c, err, todo) ==
    IF err # OK THEN Return(c, Wrap("failed to get old PR databases", err))
    ELSE ClNext([c EXCEPT !.todo = todo,
                          !.returned = {todo[i] : i \in DOMAIN todo}])

ClAfterDrop_Aborts(c, err) ==
    IF err # OK THEN Return(c, Wrap("failed to drop database", err))
    ELSE [c EXCEPT !.pc = "cl_del"]

\* a failed drop is printed as a warning; continue
ClAfterDrop(c, err) ==
    IF err # OK THEN ClNext([c EXCEPT !.todo = Tail(@)])
    ELSE [c EXCEPT !.pc = "cl_del"]

\* a failed delete is printed as a warning; continue
ClAfterDelete(c, err) ==
    IF err # OK THEN ClNext([c EXCEPT !.todo = Tail(@)])
    ELSE ClNext([c EXCEPT !.deleted = Append(@, c.dbName), !.todo = Tail(@)])

\* ------------------------------------------------- engine calls return
Resume(c0, err) ==
    LET c == [c0 EXCEPT !.pgErr = err] IN
    CASE c.pgRet = "cd_create" ->
            CdAfterCreate(Log(c, "pg.CreateDatabase", c.dbName, err = OK), err)
      [] c.pgRet = "cd_comp" ->
            CdAfterCompensate(Log(c, "pg.DropDatabase", c.dbName, err = OK), err)
      [] c.pgRet = "dd_drop" ->
            DdAfterDrop(Log(c, "pg.DropDatabase", c.dbName, err = OK), err)
      [] c.pgRet = "dp_drop" ->
            DpAfterDrop(Log(c, "pg.DropDatabase", c.dbName, err = OK), err)
      [] c.pgRet = "cl_drop" ->
            ClAfterDrop(Log(c, "pg.DropDatabase", c.dbName, err = OK), err)
      \* the engine client called directly: the method returns to its caller
      [] c.pgRet = "client" ->
            Return(Log(c, c.op, c.dbName, err = OK), err)


\* ------------------------------------------------------------ the machine
storeVars  == <<projects, databases, nextPID, nextDBID>>
engineVars == <<liveDBs, roles>>
frameVars  == <<now, active, ncalls, draws>>

Set(p, c) == call' = [call EXCEPT ![p] = c]

At(p, pc) == call[p].pc = pc

CallLimit == IF Cardinality(active) = 1 THEN MaxCalls ELSE MaxConcCalls

CanBegin(p) ==
    /\ p \in active
    /\ call[p].pc \in {"idle", "ret"}
    /\ ncalls < CallLimit

Begin(p, c) ==
    /\ CanBegin(p)
    /\ ncalls' = ncalls + 1
    /\ Set(p, c)
    /\ UNCHANGED <<storeVars, engineVars, now, active, draws>>

Failure(fail, cause) == IF fail THEN cause ELSE OK

\* The store is durable: a Manager is constructed over an empty store or over
\* one that already holds a project.
Constructed ==
    /\ projects \in {{}, {[id |-> 1, name |-> "app"]}}
    /\ databases = {}
    /\ nextPID = Cardinality(projects) + 1
    /\ nextDBID = 1
    /\ liveDBs = {}
    /\ roles = <<>>
    /\ now = 0
    /\ ncalls = 0
    /\ draws = 0
    /\ call = [p \in Procs |-> NoCall]

\* one caller: the Manager calls are sequential
Init == Constructed /\ active = {1}

\* two callers whose calls interleave statement by statement
InitConc == Constructed /\ active = Procs

Tick ==
    /\ now < MaxTime
    /\ now' = now + 1
    /\ UNCHANGED <<storeVars, engineVars, active, ncalls, draws, call>>

\* ---- Manager.CreateProject
BeginCreateProject(p) ==
    \E name \in ProjectNames \cup InvalidNames :
        Begin(p, CpValidate(NewCall("CreateProject", name, "", {}, "cp_get", Snapshot)))

CpGet(p) ==
    /\ At(p, "cp_get")
    /\ \E fail \in BOOLEAN :
        LET c == call[p] IN
        Set(p, CpAfterGet(Log(c, "store.GetProject", c.project, ~fail),
                          Failure(fail, Wrap("failed to get project", StoreDown)),
                          StoreGetProject(projects, c.project)))
    /\ UNCHANGED <<storeVars, engineVars, frameVars>>

CpCreate(p) ==
    /\ At(p, "cp_create")
    /\ LET c == call[p] IN
       \E fail \in BOOLEAN :
         IF ~fail /\ StoreCanInsertProject(projects, c.project)
         THEN /\ projects' = projects \cup {[id |-> nextPID, name |-> c.project]}
              /\ nextPID' = nextPID + 1
              /\ Set(p, CpAfterCreate(Log(c, "store.CreateProject", c.project, TRUE), OK))
              /\ UNCHANGED <<databases, nextDBID>>
         ELSE /\ Set(p, CpAfterCreate(Log(c, "store.CreateProject", c.project, FALSE),
                        Wrap("failed to create project",
                             IF fail THEN StoreDown ELSE "UNIQUE constraint failed")))
              /\ UNCHANGED storeVars
    /\ UNCHANGED <<engineVars, frameVars>>

\* ---- Manager.DeleteProject over Store.DeleteProject
BeginDeleteProject(p) ==
    \E name \in ProjectNames :
        Begin(p, NewCall("DeleteProject", name, "", {}, "dp_get", Snapshot))

DpGet(p) ==
    /\ At(p, "dp_get")
    /\ \E fail \in BOOLEAN :
        LET c == call[p] IN
        Set(p, DpAfterGet(Log(c, "store.GetProject", c.project, ~fail),
                          Failure(fail, Wrap("failed to get project", StoreDown)),
                          StoreGetProject(projects, c.project)))
    /\ UNCHANGED <<storeVars, engineVars, frameVars>>

DpList(p) ==
    /\ At(p, "dp_list")
    /\ LET c == call[p]
           rows == StoreListDatabases(databases, The(c.proj).id) IN
       \E fail \in BOOLEAN : \E order \in Orders(rows) :
        Set(p, DpAfterList(Log(c, "store.ListDatabases", c.project, ~fail),
                           Failure(fail, Wrap("failed to list databases", StoreDown)),
                           rows, order))
    /\ UNCHANGED <<storeVars, engineVars, frameVars>>

DpDelete(p) ==
    /\ At(p, "dp_del")
    /\ LET c == call[p]
           id == The(c.proj).id
           gone == StoreCascade(databases, id) IN
       \E fail \in BOOLEAN :
         IF fail
         THEN /\ Set(p, DpAfterDelete(Log(c, "store.DeleteProject", c.project, FALSE),
                                      StoreDown, {}))
              /\ UNCHANGED storeVars
         ELSE /\ projects' = {q \in projects : q.id # id}
              /\ databases' = databases \ gone
              /\ Set(p, DpAfterDelete(Log(c, "store.DeleteProject", c.project, TRUE),
                                      OK, gone))
              /\ UNCHANGED <<nextPID, nextDBID>>
    /\ UNCHANGED <<engineVars, frameVars>>

\* ---- Manager.CreateDatabase
BeginCreateDatabase(p) ==
    \E name \in ProjectNames, env \in EnvInputs, pr \in PRInputs :
        Begin(p, CdValidate(NewCall("CreateDatabase", name, env, pr, "cd_getproj", Snapshot)))

CdGetProject(p) ==
    /\ At(p, "cd_getproj")
    /\ \E fail \in BOOLEAN :
        LET c == call[p] IN
        Set(p, CdAfterGetProject(Log(c, "store.GetProject", c.project, ~fail),
                                 Failure(fail, Wrap("failed to get project", StoreDown)),
                                 StoreGetProject(projects, c.project)))
    /\ UNCHANGED <<storeVars, engineVars, frameVars>>

CdGetDatabaseWith(p, password) ==
    /\ At(p, "cd_getdb")
    /\ \E fail \in BOOLEAN :
        LET c == call[p]
            next == CdAfterGetDatabase(
                        Log(c, "store.GetDatabase", c.project, ~fail),
                        Failure(fail, Wrap("failed to get database", StoreDown)),
                        StoreGetDatabase(databases, The(c.proj).id, c.env, c.pr),
                        password, now) IN
        /\ Set(p, next)
        /\ draws' = IF next.pc = "ret" THEN draws ELSE draws + 1
    /\ UNCHANGED <<storeVars, engineVars, now, active, ncalls>>

\* rand.Read succeeds
CdGetDatabase(p) == CdGetDatabaseWith(p, GeneratePassword(draws))

\* rand.Read returns an error
CdGetDatabaseRandFails(p) == CdGetDatabaseWith(p, GeneratePasswordFallback)

CdStore(p) ==
    /\ At(p, "cd_store")
    /\ LET c == call[p]
           id == The(c.proj).id IN
       \E fail \in BOOLEAN :
         IF ~fail /\ StoreCanInsertDatabase(projects, databases, id, c.dbName)
         THEN /\ databases' = databases \cup
                    {[id |-> nextDBID, project_id |-> id, name |-> c.dbName,
                      user_name |-> c.userName, password |-> c.password,
                      env |-> c.env, pr_number |-> c.pr, created_at |-> now,
                      expires_at |-> c.expiresAt]}
              /\ nextDBID' = nextDBID + 1
              /\ Set(p, CdAfterStore(Log(c, "store.CreateDatabase", c.dbName, TRUE), OK))
              /\ UNCHANGED <<projects, nextPID>>
         ELSE /\ Set(p, CdAfterStore(Log(c, "store.CreateDatabase", c.dbName, FALSE),
                        Wrap("failed to create database",
                             IF fail THEN StoreDown ELSE "constraint failed")))
              /\ UNCHANGED storeVars
    /\ UNCHANGED <<engineVars, frameVars>>

\* ---- Manager.DeleteDatabase
BeginDeleteDatabase(p) ==
    \E name \in ProjectNames, env \in EnvInputs, pr \in PRInputs :
        Begin(p, DdValidate(NewCall("DeleteDatabase", name, env, pr, "dd_getproj", Snapshot)))

DdGetProject(p) ==
    /\ At(p, "dd_getproj")
    /\ \E fail \in BOOLEAN :
        LET c == call[p] IN
        Set(p, DdAfterGetProject(Log(c, "store.GetProject", c.project, ~fail),
                                 Failure(fail, Wrap("failed to get project", StoreDown)),
                                 StoreGetProject(projects, c.project)))
    /\ UNCHANGED <<storeVars, engineVars, frameVars>>

DdGetDatabase(p) ==
    /\ At(p, "dd_getdb")
    /\ LET c == call[p]
           rows == StoreGetDatabase(databases, The(c.proj).id, c.env, c.pr) IN
       \E fail \in BOOLEAN :
       \E rec \in IF rows = {} THEN {{}} ELSE {{r} : r \in rows} :
        Set(p, DdAfterGetDatabase(
                   Log(c, "store.GetDatabase", c.project, ~fail),
                   Failure(fail, Wrap("failed to get database", StoreDown)),
                   rec))
    /\ UNCHANGED <<storeVars, engineVars, frameVars>>

DdDelete(p) ==
    /\ At(p, "dd_del")
    /\ LET c == call[p]
           rows == StoreRowsByName(databases, c.dbName) IN
       \E fail \in BOOLEAN :
         IF ~fail /\ rows # {}
         THEN /\ databases' = databases \ rows
              /\ Set(p, DdAfterDelete(Log(c, "store.DeleteDatabase", c.dbName, TRUE), OK))
              /\ UNCHANGED <<projects, nextPID, nextDBID>>
         ELSE /\ Set(p, DdAfterDelete(Log(c, "store.DeleteDatabase", c.dbName, FALSE),
                        IF fail THEN Wrap("failed to delete database", StoreDown)
                        ELSE ErrStoreDatabaseNotFound(c.dbName)))
              /\ UNCHANGED storeVars
    /\ UNCHANGED <<engineVars, frameVars>>

\* ---- PostgresClient.CreateDatabase
PgCreateUserStep(p) ==
    /\ At(p, "pg_user")
    /\ LET c == call[p] IN
       \E out \in {"noconn", "fail", "ok"} :
         CASE out = "noconn" ->
                /\ Set(p, Resume(c, Wrap("failed to connect", EngineDown)))
                /\ UNCHANGED roles
           [] out = "fail" ->
                /\ Set(p, Resume(Log(c, "pg.createUser", c.userName, FALSE),
                                 Wrap("failed to create user", EngineDown)))
                /\ UNCHANGED roles
           [] out = "ok" ->
                \* "already exists" is not an error: the role is left as it is
                /\ roles' = IF c.userName \in DOMAIN roles THEN roles
                            ELSE PgCreateUser(roles, c.userName, c.password)
                /\ Set(p, [Log(c, "pg.createUser", c.userName, c.userName \notin DOMAIN roles)
                             EXCEPT !.pc = "pg_db"])
    /\ UNCHANGED <<storeVars, liveDBs, frameVars>>

PgCreateDbStep(p) ==
    /\ At(p, "pg_db")
    /\ LET c == call[p] IN
       \E fail \in BOOLEAN :
         IF ~fail /\ PgCanCreateDatabase(liveDBs, roles, c.dbName, c.userName)
         THEN /\ liveDBs' = liveDBs \cup {c.dbName}
              /\ Set(p, [Log(c, "pg.createDatabase", c.dbName, TRUE) EXCEPT !.pc = "pg_grant"])
         ELSE /\ Set(p, Resume(Log(c, "pg.createDatabase", c.dbName, FALSE),
                               Wrap("failed to create database",
                                    IF fail THEN EngineDown ELSE "rejected")))
              /\ UNCHANGED liveDBs
    /\ UNCHANGED <<storeVars, roles, frameVars>>

PgGrantStep(p) ==
    /\ At(p, "pg_grant")
    /\ LET c == call[p] IN
       \E fail \in BOOLEAN :
         IF ~fail /\ c.dbName \in liveDBs /\ c.userName \in DOMAIN roles
         THEN Set(p, Resume(Log(c, "pg.grant", c.dbName, TRUE), OK))
         ELSE Set(p, Resume(Log(c, "pg.grant", c.dbName, FALSE),
                            Wrap("failed to grant privileges",
                                 IF fail THEN EngineDown ELSE "rejected")))
    /\ UNCHANGED <<storeVars, engineVars, frameVars>>

\* ---- PostgresClient.DropDatabase
PgTerminateStep_Aborts(p) ==
    /\ At(p, "pg_term")
    /\ LET c == call[p] IN
       \E out \in {"noconn", "fail", "ok"} :
         CASE out = "noconn" ->
                Set(p, Resume(c, Wrap("failed to connect", EngineDown)))
           [] out = "fail" ->
                Set(p, Resume(Log(c, "pg.terminate", c.dbName, FALSE),
                              Wrap("failed to terminate connections", EngineDown)))
           [] out = "ok" ->
                Set(p, [Log(c, "pg.terminate", c.dbName, TRUE) EXCEPT !.pc = "pg_dropdb"])
    /\ UNCHANGED <<storeVars, engineVars, frameVars>>

PgTerminateStep(p) ==
    /\ At(p, "pg_term")
    /\ LET c == call[p] IN
       \E out \in {"noconn", "fail", "ok"} :
         IF out = "noconn"
         THEN Set(p, Resume(c, Wrap("failed to connect", EngineDown)))
         ELSE Set(p, [Log(c, "pg.terminate", c.dbName, out = "ok") EXCEPT !.pc = "pg_dropdb"])
    /\ UNCHANGED <<storeVars, engineVars, frameVars>>

PgDropDbStep(p) ==
    /\ At(p, "pg_dropdb")
    /\ LET c == call[p] IN
       \E fail \in BOOLEAN :
         IF fail \/ ~PgCanDropDatabase(liveDBs, c.dbName)
         THEN /\ Set(p, Resume(Log(c, "pg.dropDatabase", c.dbName, FALSE),
                               Wrap("failed to drop database",
                                    IF fail THEN EngineDown ELSE "rejected")))
              /\ UNCHANGED liveDBs
         ELSE /\ liveDBs' = PgDropDatabase(liveDBs, c.dbName)
              /\ Set(p, [Log(c, "pg.dropDatabase", c.dbName, TRUE) EXCEPT !.pc = "pg_dropuser"])
    /\ UNCHANGED <<storeVars, roles, frameVars>>

PgDropUserStep(p) ==
    /\ At(p, "pg_dropuser")
    /\ LET c == call[p] IN
       \E fail \in BOOLEAN :
         \* a role that owns a database cannot be dropped
         IF fail \/ c.dbName \in liveDBs
         THEN /\ Set(p, Resume(Log(c, "pg.dropUser", c.userName, FALSE),
                               Wrap("failed to drop user",
                                    IF fail THEN EngineDown ELSE "rejected")))
              /\ UNCHANGED roles
         ELSE /\ roles' = PgDropUser(roles, c.userName)
              /\ Set(p, Resume(Log(c, "pg.dropUser", c.userName, TRUE), OK))
    /\ UNCHANGED <<storeVars, liveDBs, frameVars>>

Step(p) ==
    \/ BeginCreateProject(p) \/ CpGet(p) \/ CpCreate(p)
    \/ BeginDeleteProject(p) \/ DpGet(p) \/ DpList(p) \/ DpDelete(p)
    \/ BeginCreateDatabase(p) \/ CdGetProject(p) \/ CdGetDatabase(p) \/ CdStore(p)
    \/ BeginDeleteDatabase(p) \/ DdGetProject(p) \/ DdGetDatabase(p) \/ DdDelete(p)
    \/ PgCreateUserStep(p) \/ PgCreateDbStep(p) \/ PgGrantStep(p)
    \/ PgTerminateStep(p) \/ PgDropDbStep(p) \/ PgDropUserStep(p)

Next == Tick \/ \E p \in Procs : Step(p)

Spec == Init /\ [][Next]_vars

SpecConc == InitConc /\ [][Next]_vars

\* ---- Manager.Cleanup
\* every step of the call reported success
Clean(c) == c.res = OK /\ \A i \in DOMAIN c.trace : c.trace[i].ok

BeginCleanup(p) ==
    \E olderThan \in OlderThanInputs :
        /\ ncalls < MaxCleanupCalls
        /\ Begin(p, [NewCall("Cleanup", "", "pr", {}, "cl_exp", Snapshot)
                    EXCEPT !.olderThan = olderThan, !.t0 = now,
                           !.prev = [cleanup |-> call[p].op = "Cleanup",
                                     clean |-> Clean(call[p]),
                                     olderThan |-> call[p].olderThan,
                                     t0 |-> call[p].t0,
                                     deleted |-> call[p].deleted]])

ClGetExpired(p) ==
    /\ At(p, "cl_exp")
    /\ \E fail \in BOOLEAN :
        LET c == call[p] IN
        Set(p, ClAfterExpired(Log(c, "store.GetExpiredDatabases", "", ~fail),
                              Failure(fail, Wrap("failed to get expired databases", StoreDown)),
                              StoreGetExpiredDatabases(databases, now)))
    /\ UNCHANGED <<storeVars, engineVars, frameVars>>

ClGetOldPR(p) ==
    /\ At(p, "cl_old")
    /\ LET c == call[p]
           oldPR == StoreGetDatabasesOlderThan(databases, "pr", c.olderThan, now) IN
       \E fail \in BOOLEAN : \E todo \in ClCombine(c.expired, oldPR) :
        Set(p, ClAfterOldPR(Log(c, "store.GetDatabasesOlderThan", "", ~fail),
                            Failure(fail, Wrap("failed to get old databases", StoreDown)),
                            todo))
    /\ UNCHANGED <<storeVars, engineVars, frameVars>>

ClDelete(p) ==
    /\ At(p, "cl_del")
    /\ LET c == call[p] IN
       \E fail \in BOOLEAN :
         LET err == StoreDeleteDatabase(databases, c.dbName, fail) IN
         /\ databases' = StoreAfterDelete(databases, c.dbName, fail)
         /\ Set(p, ClAfterDelete(Log(c, "store.DeleteDatabase", c.dbName, err = OK), err))
    /\ UNCHANGED <<projects, nextPID, nextDBID, engineVars, frameVars>>

\* The store and the cluster as earlier CreateDatabase and DeleteDatabase
\* calls can leave them: project app with two PR databases created at times 0
\* and 1 and a dev database, the first PR database with or without its live
\* database.
CleanupRows ==
    {[id |-> 1, project_id |-> 1, name |-> DatabaseName("app", "pr", {1}),
      user_name |-> UserName(DatabaseName("app", "pr", {1})), password |-> GeneratePassword(0),
      env |-> "pr", pr_number |-> {1}, created_at |-> 0, expires_at |-> {0 + DefaultTTL}],
     [id |-> 2, project_id |-> 1, name |-> DatabaseName("app", "pr", {2}),
      user_name |-> UserName(DatabaseName("app", "pr", {2})), password |-> GeneratePassword(1),
      env |-> "pr", pr_number |-> {2}, created_at |-> 1, expires_at |-> {1 + DefaultTTL}],
     [id |-> 3, project_id |-> 1, name |-> DatabaseName("app", "dev", {}),
      user_name |-> UserName(DatabaseName("app", "dev", {})), password |-> GeneratePassword(2),
      env |-> "dev", pr_number |-> {}, created_at |-> 0, expires_at |-> {}]}

Populated(rows) ==
    /\ projects = {[id |-> 1, name |-> "app"]}
    /\ nextPID = 2
    /\ databases = rows
    /\ nextDBID = 4
    /\ \E live \in {databases, {d \in databases : d.id # 1}} :
          /\ liveDBs = NamesOf(live)
          /\ roles = [u \in {d.user_name : d \in live} |->
                        (CHOOSE d \in live : d.user_name = u).password]
    /\ ncalls = 0
    /\ draws = 3
    /\ call = [p \in Procs |-> NoCall]

\* one caller, from the time the second PR database was created
InitCleanup == Populated(CleanupRows) /\ now = 1 /\ active = {1}

\* two callers, after the second PR database was deleted and the first expired
InitCleanupConc ==
    Populated({d \in CleanupRows : d.id # 2}) /\ now = 2 /\ active = Procs

CleanupTick ==
    /\ now < MaxCleanupTime
    /\ now' = now + 1
    /\ UNCHANGED <<storeVars, engineVars, active, ncalls, draws, call>>

CleanupStep(p) ==
    \/ BeginCleanup(p) \/ ClGetExpired(p) \/ ClGetOldPR(p) \/ ClDelete(p)
    \/ PgTerminateStep(p) \/ PgDropDbStep(p) \/ PgDropUserStep(p)

NextCleanup == CleanupTick \/ \E p \in Procs : CleanupStep(p)

NextCleanupConc == \E p \in Procs : CleanupStep(p)

\* Cleanup runs of one caller, one after the other, as the clock advances
SpecCleanup == InitCleanup /\ [][NextCleanup]_vars

\* Cleanup runs of two callers that interleave statement by statement
SpecCleanupConc == InitCleanupConc /\ [][NextCleanupConc]_vars

\* ---- Manager.GetDatabase
BeginGetDatabase(p) ==
    \E name \in ProjectNames, env \in EnvInputs, pr \in PRInputs :
        Begin(p, GdValidate(NewCall("GetDatabase", name, env, pr, "gd_getproj", Snapshot)))

GdGetProject(p) ==
    /\ At(p, "gd_getproj")
    /\ \E fail \in BOOLEAN :
        LET c == call[p] IN
        Set(p, GdAfterGetProject(Log(c, "store.GetProject", c.project, ~fail),
                                 Failure(fail, Wrap("failed to get project", StoreDown)),
                                 StoreGetProject(projects, c.project)))
    /\ UNCHANGED <<storeVars, engineVars, frameVars>>

GdGetDatabase(p) ==
    /\ At(p, "gd_getdb")
    /\ LET c == call[p]
           rows == StoreGetDatabase(databases, The(c.proj).id, c.env, c.pr) IN
       \E fail \in BOOLEAN :
       \E rec \in IF rows = {} THEN {{}} ELSE {{r} : r \in rows} :
        Set(p, GdAfterGetDatabase(
                   Log(c, "store.GetDatabase", c.project, ~fail),
                   Failure(fail, Wrap("failed to get database", StoreDown)),
                   rec))
    /\ UNCHANGED <<storeVars, engineVars, frameVars>>

\* ---- Manager.ListDatabases
BeginListDatabases(p) ==
    \E name \in ProjectNames \cup {""} :
        Begin(p, NewCall("ListDatabases", name, "", {},
                         IF name = "" THEN "ld_all" ELSE "ld_getproj", Snapshot))

LdListAll(p) ==
    /\ At(p, "ld_all")
    /\ \E fail \in BOOLEAN :
        LET c == call[p] IN
        Set(p, LdAfterListAll(Log(c, "store.ListAllDatabases", "", ~fail),
                              Failure(fail, Wrap("failed to list all databases", StoreDown)),
                              IF fail THEN <<>> ELSE ByName(databases)))
    /\ UNCHANGED <<storeVars, engineVars, frameVars>>

LdGetProject(p) ==
    /\ At(p, "ld_getproj")
    /\ \E fail \in BOOLEAN :
        LET c == call[p] IN
        Set(p, LdAfterGetProject(Log(c, "store.GetProject", c.project, ~fail),
                                 Failure(fail, Wrap("failed to get project", StoreDown)),
                                 StoreGetProject(projects, c.project)))
    /\ UNCHANGED <<storeVars, engineVars, frameVars>>

LdList(p) ==
    /\ At(p, "ld_list")
    /\ \E fail \in BOOLEAN :
        LET c == call[p] IN
        Set(p, LdAfterList(Log(c, "store.ListDatabases", c.project, ~fail),
                           Failure(fail, Wrap("failed to list databases", StoreDown)),
                           IF fail THEN <<>>
                           ELSE ByName(StoreListDatabases(databases, The(c.proj).id))))
    /\ UNCHANGED <<storeVars, engineVars, frameVars>>

LdProjects(p) ==
    /\ At(p, "ld_conv")
    /\ LET c == call[p] IN
       \E k \in 1..(Len(c.todo) + 1) :
        Set(p, LdConvert(Log(c, "store.ListProjects", "", k <= Len(c.todo)), projects, k))
    /\ UNCHANGED <<storeVars, engineVars, frameVars>>

\* ---- the reads of one caller over a populated store, between deletes
InitRead == Populated(CleanupRows) /\ now = 1 /\ active = {1}

ReadStep(p) ==
    \/ BeginGetDatabase(p) \/ GdGetProject(p) \/ GdGetDatabase(p)
    \/ BeginListDatabases(p) \/ LdListAll(p) \/ LdGetProject(p) \/ LdList(p)
    \/ LdProjects(p)
    \/ BeginDeleteDatabase(p) \/ DdGetProject(p) \/ DdGetDatabase(p) \/ DdDelete(p)
    \/ PgTerminateStep(p) \/ PgDropDbStep(p) \/ PgDropUserStep(p)

NextRead == \E p \in Procs : ReadStep(p)

SpecRead == InitRead /\ [][NextRead]_vars

\* ---- the command line and the HTTP API in front of Manager.CreateDatabase
BeginDbCreate(p) ==
    \E env \in EnvInputs, pr \in PRArgInputs :
        Begin(p, DbCreateArgs(NewCall("CreateDatabase", "app", env, pr, "cd_getproj", Snapshot)))

BeginApiCreateDatabase(p) ==
    \E env \in EnvInputs, pr \in PRArgInputs :
        Begin(p, ApiCreateDatabase(NewCall("CreateDatabase", "app", env, pr, "cd_getproj", Snapshot)))

InitEntry ==
    /\ Constructed
    /\ projects # {}
    /\ active = {1}

EntryStep(p) ==
    \/ BeginCreateProject(p) \/ CpGet(p) \/ CpCreate(p)
    \/ BeginDbCreate(p) \/ BeginApiCreateDatabase(p)
    \/ CdGetProject(p) \/ CdGetDatabase(p) \/ CdStore(p)
    \/ BeginGetDatabase(p) \/ GdGetProject(p) \/ GdGetDatabase(p)
    \/ BeginDeleteDatabase(p) \/ DdGetProject(p) \/ DdGetDatabase(p) \/ DdDelete(p)
    \/ PgCreateUserStep(p) \/ PgCreateDbStep(p) \/ PgGrantStep(p)
    \/ PgTerminateStep(p) \/ PgDropDbStep(p) \/ PgDropUserStep(p)

NextEntry == \E p \in Procs : EntryStep(p)

\* one caller that enters through the Manager, the command line or the API
SpecEntry == InitEntry /\ [][NextEntry]_vars

\* ---- racing CreateDatabase calls
InitCreateRace ==
    /\ Constructed
    /\ projects # {}
    /\ active = Procs

CreateStep(p) ==
    \/ BeginCreateDatabase(p) \/ CdGetProject(p) \/ CdGetDatabase(p) \/ CdStore(p)
    \/ PgCreateUserStep(p) \/ PgCreateDbStep(p) \/ PgGrantStep(p)
    \/ PgTerminateStep(p) \/ PgDropDbStep(p) \/ PgDropUserStep(p)

NextCreateRace == \E p \in Procs : CreateStep(p)

\* CreateDatabase calls of two callers over an existing project
SpecCreateRace == InitCreateRace /\ [][NextCreateRace]_vars

\* ------------------------------------------------------------ properties
PgEvents ==
    {"pg.CreateDatabase", "pg.createUser", "pg.createDatabase", "pg.grant",
     "pg.DropDatabase", "pg.terminate", "pg.dropDatabase", "pg.dropUser"}

Did(c, ev, ok) ==
    \E i \in DOMAIN c.trace : c.trace[i].ev = ev /\ c.trace[i].ok = ok

NoEngineCall(c) == \A i \in DOMAIN c.trace : c.trace[i].ev \notin PgEvents

AllReadsOk(c) == \A i \in DOMAIN c.trace : c.trace[i].ok

Returned(p, op) == call[p].pc = "ret" /\ call[p].op = op

\* the record of the call's (project, env, prNumber) in a set of rows
TargetRows(P, D, c) ==
    {d \in D : /\ \E q \in P : q.name = c.project /\ q.id = d.project_id
               /\ d.env = c.env
               /\ d.pr_number = c.pr}

\* C1: a CreateDatabase whose (project, env, prNumber) already has a record
\* fails, with the already-exists error when its store reads succeed; it
\* leaves every metadata record as it was and issues no engine call.
C1_SecondCreateRejected ==
    \A p \in Procs :
        LET c == call[p] IN
        (/\ Returned(p, "CreateDatabase")
         /\ ValidateEnv(c.env) = OK
         /\ TargetRows(c.pre.projects, c.pre.databases, c) # {})
        => /\ c.res # OK
           /\ AllReadsOk(c) => c.res = ErrDatabaseExists(c.project, c.env)
           /\ databases = c.pre.databases
           /\ NoEngineCall(c)
           /\ liveDBs = c.pre.liveDBs
           /\ roles = c.pre.roles

C1_Witness ==
    \E p \in Procs :
        LET c == call[p] IN
        /\ Returned(p, "CreateDatabase")
        /\ TargetRows(c.pre.projects, c.pre.databases, c) # {}
        /\ c.res = ErrDatabaseExists(c.project, c.env)
        /\ \E d \in databases : d.expires_at # {} /\ d.password # ""

\* the metadata write of a returned CreateDatabase failed after the live create
WriteFailedAfterCreate(p) ==
    /\ Returned(p, "CreateDatabase")
    /\ Did(call[p], "pg.CreateDatabase", TRUE)
    /\ Did(call[p], "store.CreateDatabase", FALSE)

C3_CompensationFailureFlagged ==
    \A p \in Procs :
        (WriteFailedAfterCreate(p) /\ call[p].pgErr # OK)
        => call[p].res # ErrStoreMetadata(call[p].cause)

\* C4: a CreateDatabase whose live create failed returns an error, never
\* calls the store's CreateDatabase and leaves the metadata records as they
\* were.
C4_FailedCreateRecordsNothing ==
    \A p \in Procs :
        LET c == call[p] IN
        (c.op = "CreateDatabase" /\ Did(c, "pg.CreateDatabase", FALSE))
        => /\ c.pc = "ret"
           /\ c.res # OK
           /\ ~Did(c, "store.CreateDatabase", TRUE)
           /\ ~Did(c, "store.CreateDatabase", FALSE)
           /\ databases = c.pre.databases

C4_Witness ==
    \E p \in Procs :
        LET c == call[p] IN
        /\ Returned(p, "CreateDatabase")
        /\ Did(c, "pg.CreateDatabase", FALSE)
        /\ Did(c, "pg.createUser", TRUE)
        /\ c.pre.databases # {}

\* C5: DeleteDatabase calls the store's DeleteDatabase only after the live
\* drop reported success; when the live drop fails it returns an error and
\* the record it looked up is still in the store, unchanged.
C5_MetadataOnlyAfterDrop ==
    \A p \in Procs :
        LET c == call[p] IN
        c.op = "DeleteDatabase"
        => /\ \A i \in DOMAIN c.trace :
                c.trace[i].ev = "store.DeleteDatabase"
                => \E j \in 1..(i - 1) :
                      /\ c.trace[j].ev = "pg.DropDatabase"
                      /\ c.trace[j].ok
           /\ Did(c, "pg.DropDatabase", FALSE)
                => /\ c.pc = "ret"
                   /\ c.res # OK
                   /\ c.rec \subseteq databases
                   /\ databases = c.pre.databases

C5_Witness ==
    \E p \in Procs :
        LET c == call[p] IN
        /\ Returned(p, "DeleteDatabase")
        /\ Did(c, "pg.DropDatabase", FALSE)
        /\ c.rec # {}
        /\ c.rec \subseteq databases

\* the target of a CreateDatabase or DeleteDatabase call, in the two systems
HasMeta(c) == TargetRows(projects, databases, c) # {}

HasLive(c) == DatabaseName(c.project, c.env, c.pr) \in liveDBs

\* C6: a CreateDatabase that returns success leaves its target with a
\* metadata record and a live database, a DeleteDatabase that returns success
\* leaves it with neither, and a call that returns with exactly one of the
\* two present returns an error.
C6_NoSilentPartialSuccess ==
    \A p \in Procs :
        LET c == call[p] IN
        (c.pc = "ret" /\ c.op \in {"CreateDatabase", "DeleteDatabase"})
        => /\ (c.op = "CreateDatabase" /\ c.res = OK) => (HasMeta(c) /\ HasLive(c))
           /\ (c.op = "DeleteDatabase" /\ c.res = OK) => (~HasMeta(c) /\ ~HasLive(c))
           /\ (HasMeta(c) # HasLive(c)) => c.res # OK

C6_Witness ==
    \E p \in Procs :
        LET c == call[p] IN
        /\ Returned(p, "DeleteDatabase")
        /\ Did(c, "pg.DropDatabase", TRUE)
        /\ Did(c, "store.DeleteDatabase", FALSE)
        /\ HasMeta(c) /\ ~HasLive(c)
        /\ c.res # OK

DropAttempts(c) ==
    {i \in DOMAIN c.trace : c.trace[i].ev = "pg.DropDatabase"}

\* C7: a DeleteProject whose store deletion succeeded returns success after
\* one live drop attempt for every record the store returned, whether or not
\* earlier drops failed.
C7_EveryReturnedDatabaseDropped ==
    \A p \in Procs :
        LET c == call[p] IN
        (Returned(p, "DeleteProject") /\ c.delDone)
        => /\ c.res = OK
           /\ {c.trace[i].name : i \in DropAttempts(c)} = NamesOf(c.returned)
           /\ Cardinality(DropAttempts(c)) = Cardinality(c.returned)

C7_Witness ==
    \E p \in Procs :
        LET c == call[p] IN
        /\ Returned(p, "DeleteProject")
        /\ c.delDone
        /\ Cardinality(c.returned) = 2
        /\ \E i, j \in DropAttempts(c) :
              i < j /\ ~c.trace[i].ok /\ c.trace[j].ok

\* C8: the value DeleteProject returns tells a run with a failed live drop
\* from a run whose drops all succeeded (which returns nil).
C8_DropFailuresReported ==
    \A p \in Procs :
        LET c == call[p] IN
        (Returned(p, "DeleteProject") /\ c.delDone /\ Did(c, "pg.DropDatabase", FALSE))
        => c.res # OK

\* C9: DeleteProject of a name the store does not hold returns an error, the
\* not-found error when the store could be read, makes no engine call and
\* leaves the store and the cluster as they were.
C9_DeleteMissingProject ==
    \A p \in Procs :
        LET c == call[p] IN
        (Returned(p, "DeleteProject") /\ StoreGetProject(c.pre.projects, c.project) = {})
        => /\ c.res # OK
           /\ AllReadsOk(c) => c.res = ErrStoreProjectNotFound(c.project)
           /\ NoEngineCall(c)
           /\ projects = c.pre.projects
           /\ databases = c.pre.databases
           /\ liveDBs = c.pre.liveDBs
           /\ roles = c.pre.roles

C9_Witness ==
    \E p \in Procs :
        LET c == call[p] IN
        /\ Returned(p, "DeleteProject")
        /\ StoreGetProject(c.pre.projects, c.project) = {}
        /\ c.res = ErrStoreProjectNotFound(c.project)
        /\ projects # {}
        /\ databases # {}

\* C10: the records the store's DeleteProject returns are exactly the
\* records its deletion removed.
C10_CascadeReturnsWhatItRemoves ==
    \A p \in Procs :
        LET c == call[p] IN
        (c.op = "DeleteProject" /\ c.delDone) => c.returned = c.removed

\* the steps of a call that are the event ev for the name n
Events(c, ev, n) ==
    {i \in DOMAIN c.trace : c.trace[i].ev = ev /\ c.trace[i].name = n}

Occurrences(q, n) == {i \in DOMAIN q : q[i] = n}

\* C11: one Cleanup run issues at most one live drop and at most one
\* metadata delete for a name, and lists the name at most once, also when
\* the record is both expired and an old PR record.
C11_CandidateProcessedOnce ==
    \A p \in Procs :
        LET c == call[p] IN
        c.op = "Cleanup"
        => \A d \in CleanupRows :
              /\ Cardinality(Events(c, "pg.DropDatabase", d.name)) <= 1
              /\ Cardinality(Events(c, "store.DeleteDatabase", d.name)) <= 1
              /\ Cardinality(Occurrences(c.deleted, d.name)) <= 1

C11_Witness ==
    \E p \in Procs :
        LET c == call[p] IN
        /\ Returned(p, "Cleanup")
        /\ \E d \in c.expired :
              /\ d.env = "pr"
              /\ d.created_at < c.t0 - c.olderThan
              /\ Events(c, "pg.DropDatabase", d.name) # {}
              /\ Events(c, "store.DeleteDatabase", d.name) # {}
              /\ Occurrences(c.deleted, d.name) # {}

\* the two candidate reads of a Cleanup run succeeded
CandidatesRead(c) ==
    /\ Did(c, "store.GetExpiredDatabases", TRUE)
    /\ Did(c, "store.GetDatabasesOlderThan", TRUE)

Succeeded(c, ev, n) == \E i \in Events(c, ev, n) : c.trace[i].ok

\* C12: a Cleanup run that read its candidates returns no error whatever
\* drops and deletes failed, attempts the live drop of every candidate, and
\* lists exactly the names whose live drop and metadata delete both
\* succeeded in this run.
C12_CleanupContinuesOnFailure ==
    \A p \in Procs :
        LET c == call[p] IN
        (Returned(p, "Cleanup") /\ CandidatesRead(c))
        => /\ c.res = OK
           /\ \A d \in c.returned : Events(c, "pg.DropDatabase", d.name) # {}
           /\ \A d \in CleanupRows :
                 (Occurrences(c.deleted, d.name) # {})
                 <=> (/\ Succeeded(c, "pg.DropDatabase", d.name)
                      /\ Succeeded(c, "store.DeleteDatabase", d.name))

C12_Witness ==
    \E p \in Procs :
        LET c == call[p] IN
        /\ Returned(p, "Cleanup")
        /\ c.res = OK
        /\ \E j, k \in DOMAIN c.trace :
              /\ j < k
              /\ c.trace[j].ev = "store.DeleteDatabase" /\ ~c.trace[j].ok
              /\ c.trace[k].ev = "store.DeleteDatabase" /\ c.trace[k].ok
              /\ Occurrences(c.deleted, c.trace[k].name) # {}
              /\ Occurrences(c.deleted, c.trace[j].name) = {}

\* the call is a Cleanup that follows, with the same olderThan and at the
\* same clock reading, a Cleanup of the same caller in which nothing failed
SecondCleanup(c) ==
    /\ c.op = "Cleanup"
    /\ c.prev.cleanup
    /\ c.prev.clean
    /\ c.prev.olderThan = c.olderThan
    /\ c.prev.t0 = now

\* C13: a Cleanup that follows a Cleanup on the same state, neither with a
\* failure, finds no candidate, returns an empty list and no error.
C13_SecondCleanupEmpty ==
    \A p \in Procs :
        LET c == call[p] IN
        (Returned(p, "Cleanup") /\ SecondCleanup(c) /\ AllReadsOk(c))
        => /\ c.res = OK
           /\ c.deleted = <<>>
           /\ c.returned = {}
           /\ NoEngineCall(c)

C13_Witness ==
    \E p \in Procs :
        LET c == call[p] IN
        /\ Returned(p, "Cleanup")
        /\ SecondCleanup(c)
        /\ AllReadsOk(c)
        /\ Len(c.prev.deleted) = 2
        /\ c.deleted = <<>>

\* C14: of two Cleanup runs that interleave, neither returns an error once
\* it has read its candidates, and no name is in the returned list of both.
C14_ConcurrentCleanupsDisjoint ==
    /\ \A p \in Procs :
          (Returned(p, "Cleanup") /\ CandidatesRead(call[p])) => call[p].res = OK
    /\ \A d \in CleanupRows :
          \/ Occurrences(call[1].deleted, d.name) = {}
          \/ Occurrences(call[2].deleted, d.name) = {}

C14_Witness ==
    \E p, q \in Procs :
        /\ p # q
        /\ Returned(p, "Cleanup") /\ Returned(q, "Cleanup")
        /\ call[p].res = OK /\ call[q].res = OK
        /\ \E d \in CleanupRows :
              /\ Succeeded(call[p], "pg.DropDatabase", d.name)
              /\ Succeeded(call[q], "pg.DropDatabase", d.name)
              /\ Succeeded(call[p], "store.DeleteDatabase", d.name)
              /\ Events(call[q], "store.DeleteDatabase", d.name) # {}
              /\ Occurrences(call[p].deleted, d.name) # {}
              /\ Occurrences(call[q].deleted, d.name) = {}

SameTarget(c, d) == c.project = d.project /\ c.env = d.env /\ c.pr = d.pr

\* C15: of two CreateDatabase calls of different callers for the same
\* (project, env, prNumber), at most one returns success, and once both have
\* returned the successful call's metadata record, live database and role
\* exist.
C15_RacingCreatesOneWinner ==
    \A p, q \in Procs :
        LET c == call[p]
            d == call[q] IN
        (/\ p # q
         /\ Returned(p, "CreateDatabase") /\ Returned(q, "CreateDatabase")
         /\ SameTarget(c, d))
        => /\ ~(c.res = OK /\ d.res = OK)
           /\ c.res = OK => /\ HasMeta(c)
                            /\ HasLive(c)
                            /\ c.userName \in DOMAIN roles

\* both calls passed the existence check, the winner's live create came
\* first and the loser's CREATE DATABASE was rejected by the engine
C15_Witness ==
    \E p, q \in Procs :
        LET c == call[p]
            d == call[q] IN
        /\ p # q
        /\ Returned(p, "CreateDatabase") /\ Returned(q, "CreateDatabase")
        /\ SameTarget(c, d)
        /\ c.res = OK
        /\ Did(d, "store.GetDatabase", TRUE)
        /\ Did(d, "pg.createDatabase", FALSE)
        /\ d.res = Wrap("failed to create database",
                        Wrap("failed to create database", "rejected"))
        /\ HasMeta(c) /\ HasLive(c)

InPRRange(n) == 0 < n /\ n <= MaxPRNumber

\* C16: a CreateDatabase for env pr with a PR number outside (0, 1000000]
\* returns an error and creates no metadata record and no live database.
C16_PRRangeEnforced ==
    \A p \in Procs :
        LET c == call[p] IN
        (/\ Returned(p, "CreateDatabase")
         /\ c.env = "pr"
         /\ c.pr # {}
         /\ ~InPRRange(The(c.pr)))
        => /\ c.res # OK
           /\ databases = c.pre.databases
           /\ liveDBs = c.pre.liveDBs

\* the error of the checks an operation makes on its arguments
ValidationError(c) ==
    CASE c.op = "CreateProject" -> ValidateName(c.project)
      [] c.op = "CreateDatabase" ->
            IF ValidateEnv(c.env) # OK THEN ValidateEnv(c.env)
            ELSE IF c.env = "pr" /\ c.pr = {} THEN ErrPRRequired
            ELSE OK
      [] c.op \in {"GetDatabase", "DeleteDatabase"} -> ValidateEnv(c.env)
      [] OTHER -> OK

\* C17: an operation whose arguments fail validation has returned an error
\* without any store call or engine call, and the store and the cluster are
\* as they were before the call.
C17_ValidationBeforeIO ==
    \A p \in Procs :
        LET c == call[p] IN
        ValidationError(c) # OK
        => /\ c.pc = "ret"
           /\ c.res # OK
           /\ c.trace = <<>>
           /\ projects = c.pre.projects
           /\ databases = c.pre.databases
           /\ liveDBs = c.pre.liveDBs
           /\ roles = c.pre.roles

C17_Witness ==
    \E p \in Procs :
        LET c == call[p] IN
        /\ Returned(p, "CreateProject")
        /\ c.project = "root"
        /\ c.res = ValidateName("root")
        /\ c.res # OK
        /\ c.trace = <<>>
        /\ databases # {}

\* C18: every database record in the store has a pr_number if and only if
\* its env is pr.
C18_PRNumberIffPR ==
    \A d \in databases : (d.pr_number # {}) <=> (d.env = "pr")

\* C19: a record of env pr has expires_at equal to a clock reading not
\* later than its creation plus the configured TTL, a record of another env
\* has none; a CreateDatabase that returns success stored the expiry it
\* computed.
C19_ExpiryFromClockAndTTL ==
    /\ \A d \in databases :
          IF d.env = "pr"
          THEN \E t \in 0..d.created_at : d.expires_at = {t + DefaultTTL}
          ELSE d.expires_at = {}
    /\ \A p \in Procs :
          LET c == call[p] IN
          (Returned(p, "CreateDatabase") /\ c.res = OK)
          => \A d \in TargetRows(projects, databases, c) :
                /\ d.expires_at = c.expiresAt
                /\ (c.env = "pr") <=> (c.expiresAt # {})

\* the clock advanced between the reading and the insert
C19_Witness ==
    \E p \in Procs :
        LET c == call[p] IN
        /\ Returned(p, "CreateDatabase")
        /\ c.res = OK
        /\ c.env = "pr"
        /\ \E d \in TargetRows(projects, databases, c) :
              d.expires_at = {0 + DefaultTTL} /\ d.created_at = 1
        /\ \E d \in databases : d.env # "pr" /\ d.expires_at = {}

\* the name of the project that owns the record
OwnerName(d) == (CHOOSE q \in projects : q.id = d.project_id).name

\* C20: every record is named {project}_{env}, or {project}_pr_{pr_number}
\* for env pr, with user_name the name followed by _user; a CreateDatabase
\* that returns success created the live database and the role under the
\* names in its record.
C20_NamesFollowConvention ==
    /\ \A d \in databases :
          /\ \E q \in projects : q.id = d.project_id
          /\ d.name = IF d.env = "pr"
                      THEN OwnerName(d) \o "_pr_" \o ToString(The(d.pr_number))
                      ELSE OwnerName(d) \o "_" \o d.env
          /\ d.user_name = d.name \o "_user"
    /\ \A p \in Procs :
          LET c == call[p] IN
          (Returned(p, "CreateDatabase") /\ c.res = OK)
          => \A d \in TargetRows(projects, databases, c) :
                /\ Succeeded(c, "pg.createDatabase", d.name)
                /\ Events(c, "pg.createUser", d.user_name) # {}
                /\ d.name \in liveDBs
                /\ d.user_name \in DOMAIN roles

C20_Witness ==
    \E p \in Procs :
        LET c == call[p] IN
        /\ Returned(p, "CreateDatabase")
        /\ c.res = OK
        /\ \E d \in TargetRows(projects, databases, c) :
              /\ d.name = "app_pr_1"
              /\ d.user_name = "app_pr_1_user"
              /\ d.name \in liveDBs
        /\ \E d \in databases : d.name = "app_dev" /\ d.user_name = "app_dev_user"

\* ---- CreateDatabase and DeleteDatabase calls of two callers on one project:
\* caller 1 creates, caller 2 creates and deletes
InitPairs ==
    /\ Constructed
    /\ projects # {}
    /\ active = Procs

BeginPair(p) ==
    /\ p \in active
    /\ call[p].pc \in {"idle", "ret"}
    /\ ncalls < MaxPairCalls
    /\ ncalls' = ncalls + 1
    /\ \E env \in {"dev", "pr"} :
       \E op \in IF p = 1 THEN {"CreateDatabase"} ELSE {"CreateDatabase", "DeleteDatabase"} :
         LET pr == IF env = "pr" THEN {1} ELSE {} IN
         Set(p, IF op = "CreateDatabase"
                THEN CdValidate(NewCall(op, "app", env, pr, "cd_getproj", Snapshot))
                ELSE DdValidate(NewCall(op, "app", env, pr, "dd_getproj", Snapshot)))
    /\ UNCHANGED <<storeVars, engineVars, now, active, draws>>

PairStep(p) ==
    \/ BeginPair(p)
    \/ CdGetProject(p) \/ CdGetDatabase(p) \/ CdStore(p)
    \/ DdGetProject(p) \/ DdGetDatabase(p) \/ DdDelete(p)
    \/ PgCreateUserStep(p) \/ PgCreateDbStep(p) \/ PgGrantStep(p)
    \/ PgTerminateStep(p) \/ PgDropDbStep(p) \/ PgDropUserStep(p)

NextPairs == \E p \in Procs : PairStep(p)

SpecPairs == InitPairs /\ [][NextPairs]_vars

MaxMockRows == 3

MockNames == {"app_dev", "app_pr_1"}

\* NewMockStore
InitMockStore ==
    /\ projects = {}
    /\ databases = {}
    /\ nextPID = 1
    /\ nextDBID = 1
    /\ liveDBs = {}
    /\ roles = <<>>
    /\ now = 0
    /\ ncalls = 0
    /\ draws = 0
    /\ call = [p \in Procs |-> NoCall]
    /\ active = {1}

\* MockStore.CreateProject: rejects a name that a project already has
MockCreateProject ==
    /\ nextPID <= 2
    /\ \E name \in ProjectNames :
        IF \E q \in projects : q.name = name
        THEN UNCHANGED <<projects, nextPID>>
        ELSE /\ projects' = projects \cup {[id |-> nextPID, name |-> name]}
             /\ nextPID' = nextPID + 1
    /\ UNCHANGED <<databases, nextDBID, engineVars, frameVars, call>>

\* MockStore.CreateDatabase: stores the record under the next id, no check
MockCreateDatabase ==
    /\ nextDBID <= MaxMockRows
    /\ \E projectID \in {1, 2}, name \in MockNames, env \in {"dev", "pr"} :
        /\ databases' = databases \cup
              {[id |-> nextDBID, project_id |-> projectID, name |-> name,
                user_name |-> UserName(name), password |-> GeneratePassword(nextDBID),
                env |-> env, pr_number |-> IF env = "pr" THEN {1} ELSE {},
                created_at |-> now, expires_at |-> ExpiresAt(env, now)]}
        /\ nextDBID' = nextDBID + 1
    /\ UNCHANGED <<projects, nextPID, engineVars, frameVars, call>>

\* MockStore.DeleteDatabase: removes the first record of that name that the
\* iteration over the map meets
MockDeleteDatabase ==
    /\ \E name \in MockNames :
        \E d \in StoreRowsByName(databases, name) :
            databases' = databases \ {d}
    /\ UNCHANGED <<projects, nextPID, nextDBID, engineVars, frameVars, call>>

\* MockStore.DeleteProject: removes the project and the records that refer to it
MockDeleteProject ==
    /\ \E q \in projects :
        /\ projects' = projects \ {q}
        /\ databases' = databases \ StoreCascade(databases, q.id)
    /\ UNCHANGED <<nextPID, nextDBID, engineVars, frameVars, call>>

NextMockStore ==
    \/ MockCreateProject
    \/ MockCreateDatabase
    \/ MockDeleteDatabase
    \/ MockDeleteProject

SpecMockStore == InitMockStore /\ [][NextMockStore]_vars

\* C22: no two database records in the store share a name, because
\* CreateDatabase of every Store implementation rejects an insert under a
\* name that a record already has.
C22_StoreRejectsDuplicateName ==
    \A d, e \in databases : d.name = e.name => d.id = e.id

\* the DatabaseInfo values that a returned call handed to its caller
InfosOf(c) == c.info \cup {c.infos[i] : i \in DOMAIN c.infos}

Contains(connString, s) == \E i \in DOMAIN connString : connString[i] = s

\* C23: the values returned by GetDatabase and ListDatabases never contain a
\* stored password, neither in the Password field nor in the connection
\* string.
C23_ReadsHidePassword ==
    \A p \in Procs :
        LET c == call[p] IN
        (Returned(p, "GetDatabase") \/ Returned(p, "ListDatabases"))
        => \A i \in InfosOf(c) : \A d \in c.pre.databases :
              /\ i.Password # d.password
              /\ ~Contains(i.ConnString, d.password)

\* C24: when GetDatabase or ListDatabases returns, with a value or with an
\* error, it has issued no call to the database engine client, and the
\* metadata store and the live cluster are as they were when it was called.
C24_ReadsChangeNothing ==
    \A p \in Procs :
        LET c == call[p] IN
        (Returned(p, "GetDatabase") \/ Returned(p, "ListDatabases"))
        => /\ NoEngineCall(c)
           /\ Snapshot = c.pre

\* a list that returned records, after a delete changed the store
C24_Witness ==
    \E p \in Procs :
        /\ Returned(p, "ListDatabases")
        /\ call[p].res = OK
        /\ Len(call[p].infos) = 2
        /\ call[p].pre.databases # CleanupRows

\* the record's expires_at is before t
ExpiredAt(d, t) == \E x \in d.expires_at : x < t

\* the record is a PR record created more than olderThan before t
OldPRAt(d, olderThan, t) == d.env = "pr" /\ d.created_at < t - olderThan

\* C25: a Cleanup issues an engine drop or a metadata delete only for a
\* record that, at a clock reading of the call, had expires_at in the past
\* or was a PR record older than olderThan; it removes no record of another
\* env, and no PR record that is neither expired nor older than olderThan
\* when the call returns.
C25_CleanupRemovesOnlyEligible ==
    \A p \in Procs :
        LET c == call[p] IN
        c.op = "Cleanup" =>
          /\ \A i \in DOMAIN c.trace :
                c.trace[i].ev \in PgEvents \cup {"store.DeleteDatabase"}
                => \E d \in c.pre.databases :
                      /\ c.trace[i].name \in {d.name, d.user_name}
                      /\ \E t \in c.t0..now :
                            ExpiredAt(d, t) \/ OldPRAt(d, c.olderThan, t)
          /\ \A d \in c.pre.databases :
                (d.env # "pr" \/ ~(ExpiredAt(d, now) \/ OldPRAt(d, c.olderThan, now)))
                => /\ d \in databases
                   /\ (d.name \in c.pre.liveDBs => d.name \in liveDBs)

\* a Cleanup removed the old PR record and kept the newer PR record and the
\* dev record
C25_Witness ==
    \E p \in Procs :
        LET c == call[p] IN
        /\ Returned(p, "Cleanup")
        /\ c.deleted = <<"app_pr_1">>
        /\ ~ExpiredAt(The({d \in c.pre.databases : d.id = 1}), now)
        /\ \E d \in databases : d.name = "app_pr_2" /\ d.name \in liveDBs
        /\ \E d \in databases : d.env = "dev" /\ d.created_at < now - c.olderThan

\* the name that the call's (project, env, prNumber) stands for
TargetName(c) == DatabaseName(c.project, c.env, c.pr)

\* in snapshot s the live database n exists without a metadata record
OrphanedLive(s, n) == n \in s.liveDBs /\ n \notin NamesOf(s.databases)

\* in snapshot s the metadata record n exists without its live database
OrphanedMetadata(s, n) == n \notin s.liveDBs /\ n \in NamesOf(s.databases)

\* no statement of the call met an unavailable store or engine: the only
\* failure in it, if any, is the engine rejecting CREATE DATABASE for a
\* database that exists
HealthyRun(c) ==
    \A i \in DOMAIN c.trace :
        ~c.trace[i].ok
        => /\ c.trace[i].ev \in {"pg.createUser", "pg.createDatabase", "pg.CreateDatabase"}
           /\ c.pgErr = Wrap("failed to create database", "rejected")

\* C26: with the store and the engine available, a CreateDatabase run again
\* on a live database that has no metadata record, and a DeleteDatabase run
\* again on a metadata record that has no live database, leave the two
\* consistent when they return: both present or both absent.
C26_RerunConverges ==
    \A p \in Procs :
        LET c == call[p]
            n == TargetName(c) IN
        (/\ c.pc = "ret"
         /\ ValidateEnv(c.env) = OK
         /\ (c.env = "pr") <=> (c.pr # {})
         /\ c.proj # {}
         /\ \A d \in StoreRowsByName(c.pre.databases, n) :
               d.env = c.env /\ d.pr_number = c.pr
         /\ HealthyRun(c)
         /\ \/ c.op = "CreateDatabase" /\ OrphanedLive(c.pre, n)
            \/ c.op = "DeleteDatabase" /\ OrphanedMetadata(c.pre, n))
        => (n \in liveDBs) = (n \in NamesOf(databases))

\* ---- a caller that cancels the context of a running call
\* The caller cancels the ctx it passed to the Manager.
Cancel(p) ==
    /\ p \in active
    /\ call[p].pc \notin {"idle", "ret"}
    /\ ~call[p].cancelled
    /\ Set(p, Log([call[p] EXCEPT !.cancelled = TRUE], "ctx.cancel", "", TRUE))
    /\ UNCHANGED <<storeVars, engineVars, frameVars>>

\* pgx.Connect(ctx, ...) and conn.Exec(ctx, ...) return an error and do
\* nothing once ctx is cancelled
CtxHonoured(p) ==
    call[p].cancelled
    => /\ UNCHANGED engineVars
       /\ ~call'[p].trace[Len(call'[p].trace)].ok

InitCancel ==
    /\ Constructed
    /\ projects # {}
    /\ active = {1}

\* the engine client receives ctx, the store methods do not
CancelStep(p) ==
    \/ Cancel(p)
    \/ BeginCreateDatabase(p) \/ CdGetProject(p) \/ CdGetDatabase(p) \/ CdStore(p)
    \/ BeginDeleteDatabase(p) \/ DdGetProject(p) \/ DdGetDatabase(p) \/ DdDelete(p)
    \/ /\ \/ PgCreateUserStep(p) \/ PgCreateDbStep(p) \/ PgGrantStep(p)
          \/ PgTerminateStep(p) \/ PgDropDbStep(p) \/ PgDropUserStep(p)
       /\ CtxHonoured(p)

NextCancel == \E p \in Procs : CancelStep(p)

SpecCancel == InitCancel /\ [][NextCancel]_vars

\* the steps that cannot be taken back
Irreversible ==
    {"pg.createUser", "pg.createDatabase", "pg.dropDatabase", "pg.dropUser",
     "store.CreateDatabase", "store.DeleteDatabase"}

\* C27: after the caller's context is cancelled, the call performs no
\* further live create, live drop, metadata write or metadata delete.
C27_NoIrreversibleStepAfterCancel ==
    \A p \in Procs :
        LET t == call[p].trace IN
        \A i, j \in DOMAIN t :
            (i < j /\ t[i].ev = "ctx.cancel")
            => ~(t[j].ev \in Irreversible /\ t[j].ok)

\* ---- CreateDatabase and DeleteDatabase with a random source that can fail
InitRand ==
    /\ Constructed
    /\ projects # {}
    /\ active = {1}

RandStep(p) ==
    \/ BeginCreateDatabase(p) \/ CdGetProject(p) \/ CdStore(p)
    \/ CdGetDatabase(p) \/ CdGetDatabaseRandFails(p)
    \/ PgCreateUserStep(p) \/ PgCreateDbStep(p) \/ PgGrantStep(p)
    \/ PgTerminateStep(p) \/ PgDropDbStep(p) \/ PgDropUserStep(p)

NextRand == \E p \in Procs : RandStep(p)

SpecRand == InitRand /\ [][NextRand]_vars

\* C28: no record and no role carries the fallback password, and a
\* CreateDatabase whose secret generation fell back returns an error with
\* the store and the cluster as they were.
C28_NoFallbackPassword ==
    /\ \A d \in databases : d.password # GeneratePasswordFallback
    /\ \A u \in DOMAIN roles : roles[u] # GeneratePasswordFallback
    /\ \A p \in Procs :
          LET c == call[p] IN
          (Returned(p, "CreateDatabase") /\ c.password = GeneratePasswordFallback)
          => c.res # OK /\ Snapshot = c.pre

\* ---- ValidateName as a function of its argument
NameAlphabet == {"a", "z", "0", "9", "_", "A", "-"}

\* every name over the alphabet up to MaxNameLen characters, the reserved
\* names and names next to them, and names of 31, 32 and 33 characters
NameInputs ==
    UNION {[1..n -> NameAlphabet] : n \in 0..MaxNameLen}
    \cup {<<"p", "o", "s", "t", "g", "r", "e", "s">>,
          <<"t", "e", "m", "p", "l", "a", "t", "e", "0">>,
          <<"t", "e", "m", "p", "l", "a", "t", "e", "1">>,
          <<"t", "e", "m", "p", "l", "a", "t", "e", "2">>,
          <<"a", "d", "m", "i", "n">>,
          <<"r", "o", "o", "t">>,
          <<"r", "o", "o", "t", "s">>,
          <<"s", "y", "s", "t", "e", "m">>,
          <<"R", "o", "o", "t">>}
    \cup {[i \in 1..n |-> "a"] : n \in {31, 32, 33}}
    \cup {[i \in 1..32 |-> IF i = 32 THEN "A" ELSE "a"]}

InitValidateName ==
    /\ Constructed
    /\ projects = {}
    /\ active = {1}

BeginValidateName(p) ==
    /\ p \in active
    /\ call[p].pc = "idle"
    /\ \E cs \in NameInputs :
        Set(p, [NewCall("ValidateName", Join(cs), "", {}, "vn", EmptySnapshot)
                EXCEPT !.todo = cs])
    /\ UNCHANGED <<storeVars, engineVars, frameVars>>

ApplyValidateName(p) ==
    /\ At(p, "vn")
    /\ Set(p, Return(call[p], ValidateNameBytes(call[p].todo)))
    /\ UNCHANGED <<storeVars, engineVars, frameVars>>

NextValidateName == \E p \in Procs : BeginValidateName(p) \/ ApplyValidateName(p)

SpecValidateName == InitValidateName /\ [][NextValidateName]_vars

\* C29: ValidateName accepts a name if and only if it has 2 to 32 characters,
\* starts with a lowercase letter, continues with lowercase letters, digits
\* and underscores only, and is none of postgres, template0, template1, admin,
\* root, system.
C29_ValidateNameIff ==
    \A p \in Procs :
        LET c == call[p]
            cs == c.todo IN
        Returned(p, "ValidateName")
        => ((c.res = OK) <=>
               /\ Len(cs) >= 2
               /\ Len(cs) <= 32
               /\ cs[1] \in LowerCase
               /\ \A i \in 2..Len(cs) : cs[i] \in LowerCase \cup Digits \cup {"_"}
               /\ c.project \notin {"postgres", "template0", "template1",
                                    "admin", "root", "system"})

\* an accepted name with a digit and an underscore
C29_Witness ==
    \E p \in Procs :
        /\ Returned(p, "ValidateName")
        /\ call[p].project = "a_9"
        /\ call[p].res = OK

\* ---- ParseEnv as a function of its argument
ErrInvalidPRFormat == "invalid PR environment format, expected pr_<number>"

HasPrefix(cs, prefix) ==
    /\ Len(cs) >= Len(prefix)
    /\ SubSeq(cs, 1, Len(prefix)) = prefix

DigitVal(ch) ==
    CASE ch = "0" -> 0 [] ch = "1" -> 1 [] ch = "2" -> 2 [] ch = "3" -> 3
      [] ch = "4" -> 4 [] ch = "5" -> 5 [] ch = "6" -> 6 [] ch = "7" -> 7
      [] ch = "8" -> 8 [] ch = "9" -> 9

\* the value of a run of decimal digits
RECURSIVE DecimalValue(_)
DecimalValue(ds) ==
    IF ds = <<>> THEN 0
    ELSE DecimalValue(SubSeq(ds, 1, Len(ds) - 1)) * 10 + DigitVal(ds[Len(ds)])

\* blanks that a scan verb other than %c skips before its operand
RECURSIVE SkipSpace(_)
SkipSpace(cs) ==
    IF cs # <<>> /\ cs[1] \in {" ", "\t"} THEN SkipSpace(Tail(cs)) ELSE cs

\* the longest run of decimal digits at the head of the input
RECURSIVE DigitRun(_)
DigitRun(cs) ==
    IF cs # <<>> /\ cs[1] \in Digits THEN <<cs[1]>> \o DigitRun(Tail(cs)) ELSE <<>>

\* fmt.Sscanf(envStr, "pr_%d", &num) on a string that starts with "pr_": the
\* literal part of the format consumes "pr_"; %d skips blanks, takes an
\* optional sign and then the longest run of digits, which must not be empty;
\* input after the run is left unread and is no error.  Runs within
\* MaxSuffixLen are far inside the range of int.
ScanPRNumber(cs) ==
    LET rest   == SkipSpace(SubSeq(cs, 4, Len(cs)))
        signed == rest # <<>> /\ rest[1] \in {"+", "-"}
        digits == DigitRun(IF signed THEN Tail(rest) ELSE rest)
        v      == DecimalValue(digits) IN
    IF digits = <<>>
    THEN [err |-> TRUE, num |-> 0]
    ELSE [err |-> FALSE, num |-> IF signed /\ rest[1] = "-" THEN 0 - v ELSE v]

ParseEnv(cs) ==
    IF HasPrefix(cs, <<"p", "r", "_">>)
    THEN LET s == ScanPRNumber(cs) IN
         IF s.err
         THEN [env |-> "", prNumber |-> {}, err |-> ErrInvalidPRFormat]
         ELSE [env |-> "pr", prNumber |-> {s.num}, err |-> OK]
    ELSE [env |-> Join(cs), prNumber |-> {}, err |-> OK]

SuffixAlphabet == {"0", "1", "5", "a", "-", "+", " "}

\* "pr_" followed by every suffix up to MaxSuffixLen characters, and tokens
\* without the prefix
EnvTokens ==
    {<<"p", "r", "_">> \o s :
        s \in UNION {[1..n -> SuffixAlphabet] : n \in 0..MaxSuffixLen}}
    \cup {<<>>, <<"d", "e", "v">>, <<"p", "r", "o", "d">>,
          <<"s", "t", "a", "g", "i", "n", "g">>, <<"p", "r">>,
          <<"p", "r", "1">>, <<"p", "r", "-", "1">>, <<"P", "R", "_", "1">>}

InitParseEnv ==
    /\ Constructed
    /\ projects = {}
    /\ active = {1}

\* the call's env and pr are the named results env and prNumber, at their
\* zero values until the function returns
BeginParseEnv(p) ==
    /\ p \in active
    /\ call[p].pc = "idle"
    /\ \E cs \in EnvTokens :
        Set(p, [NewCall("ParseEnv", "", "", {}, "pe", EmptySnapshot)
                EXCEPT !.todo = cs])
    /\ UNCHANGED <<storeVars, engineVars, frameVars>>

ApplyParseEnv(p) ==
    /\ At(p, "pe")
    /\ LET r == ParseEnv(call[p].todo) IN
       Set(p, [Return(call[p], r.err) EXCEPT !.env = r.env, !.pr = r.prNumber])
    /\ UNCHANGED <<storeVars, engineVars, frameVars>>

NextParseEnv == \E p \in Procs : BeginParseEnv(p) \/ ApplyParseEnv(p)

SpecParseEnv == InitParseEnv /\ [][NextParseEnv]_vars

\* C30: on a token that starts with "pr_", ParseEnv returns ("pr", n) only
\* when the whole remainder of the token is the decimal form of a positive
\* integer n and returns the invalid-format error otherwise; a token without
\* the prefix is returned unchanged with no PR number.
C30_ParseEnvWholePositiveNumber ==
    \A p \in Procs :
        LET c    == call[p]
            rest == SubSeq(c.todo, 4, Len(c.todo))
            whole == /\ rest # <<>>
                     /\ \A i \in 1..Len(rest) : rest[i] \in Digits
                     /\ DecimalValue(rest) > 0 IN
        Returned(p, "ParseEnv")
        => IF HasPrefix(c.todo, <<"p", "r", "_">>)
           THEN IF whole
                THEN c.res = OK /\ c.env = "pr" /\ c.pr = {DecimalValue(rest)}
                ELSE c.res = ErrInvalidPRFormat /\ c.pr = {}
           ELSE c.res = OK /\ c.env = Join(c.todo) /\ c.pr = {}

\* C31: the connection string returned to callers is exactly
\* postgresql://{user}:{password}@{host}:{port}/{dbname}?sslmode={mode}, with
\* the configured SSL mode, an empty mode rendered as require, and the
\* password inserted verbatim.
C31_ConnStringHasConfiguredMode ==
    \A p \in Procs :
        LET c    == call[p]
            mode == IF PostgresSSLMode = "" THEN "require" ELSE PostgresSSLMode IN
        (Returned(p, "GetDatabase") \/ Returned(p, "ListDatabases"))
        => \A i \in InfosOf(c) :
              i.ConnString =
                  <<"postgresql://", i.UserName, ":", i.Password, "@",
                    PostgresHost, ":", ToString(PostgresPort), "/",
                    i.DatabaseName, "?sslmode=" \o mode>>

\* ---- the engine client called directly
\* PostgresClient.CreateDatabase(ctx, dbName, userName, password) and
\* PostgresClient.DropDatabase(ctx, dbName, userName) on the naming scheme's
\* pairs of database and role
EngineTargets == {"app_dev", "web_dev"}

InitEngine == Constructed /\ projects = {} /\ active = {1}

BeginPgCreateDatabase(p) ==
    \E n \in EngineTargets, password \in {"s1", "s2"} :
        Begin(p, [NewCall("pg.CreateDatabase", "", "", {}, "pg_user", Snapshot)
                  EXCEPT !.dbName = n, !.userName = UserName(n),
                         !.password = password, !.pgRet = "client"])

BeginPgDropDatabase(p) ==
    \E n \in EngineTargets :
        Begin(p, [NewCall("pg.DropDatabase", "", "", {}, "pg_term", Snapshot)
                  EXCEPT !.dbName = n, !.userName = UserName(n),
                         !.pgRet = "client"])

EngineStep(p) ==
    \/ BeginPgCreateDatabase(p) \/ BeginPgDropDatabase(p)
    \/ PgCreateUserStep(p) \/ PgCreateDbStep(p) \/ PgGrantStep(p)
    \/ PgTerminateStep(p) \/ PgDropDbStep(p) \/ PgDropUserStep(p)

NextEngine == \E p \in Procs : EngineStep(p)

SpecEngine == InitEngine /\ [][NextEngine]_vars

\* the call met no unavailable engine: no connect failure and no statement
\* that failed for that reason (a failed terminate statement is not an error
\* of the call)
EngineAvailable(c) ==
    c.pgErr \notin {Wrap("failed to connect", EngineDown),
                    Wrap("failed to drop database", EngineDown),
                    Wrap("failed to drop user", EngineDown)}

\* C32: with the engine available, the engine client's DropDatabase(name,
\* user) succeeds whether or not the database and the role are present when
\* it is called, and leaves neither present, so a second call in a row on the
\* same target succeeds as well.
C32_DropIdempotent ==
    \A p \in Procs :
        LET c == call[p] IN
        (Returned(p, "pg.DropDatabase") /\ EngineAvailable(c))
        => /\ c.res = OK
           /\ c.dbName \notin liveDBs
           /\ c.userName \notin DOMAIN roles

\* the last of the calls is a drop that succeeded on a target of which
\* neither the database nor the role was present
C32_Witness ==
    \E p \in Procs :
        /\ Returned(p, "pg.DropDatabase")
        /\ call[p].res = OK
        /\ call[p].dbName \notin call[p].pre.liveDBs
        /\ call[p].userName \notin DOMAIN call[p].pre.roles
        /\ ncalls = MaxCalls

\* the statements that the engine client's call has run so far, in order
Statements(c) ==
    [i \in 1..Len(SelectSeq(c.trace, LAMBDA e : e.ev # c.op)) |->
        SelectSeq(c.trace, LAMBDA e : e.ev # c.op)[i].ev]

IsPrefix(s, t) == Len(s) <= Len(t) /\ s = SubSeq(t, 1, Len(s))

\* C39: the engine client's DropDatabase runs terminate sessions, drop
\* database, drop role in this order; after a terminate statement, failed or
\* not, the drop of the database is attempted; a failed drop of the database
\* returns an error and no drop of the role is attempted; the role is only
\* dropped when its database is gone.
C39_DropOrder ==
    \A p \in Procs :
        LET c == call[p] IN
        c.op = "pg.DropDatabase"
        => /\ IsPrefix(Statements(c), <<"pg.terminate", "pg.dropDatabase", "pg.dropUser">>)
           /\ (At(p, "ret") /\ Len(Statements(c)) >= 1) => Len(Statements(c)) >= 2
           /\ Did(c, "pg.dropDatabase", FALSE)
              => /\ Len(Statements(c)) = 2
                 /\ At(p, "ret") /\ c.res # OK
           /\ Did(c, "pg.dropUser", TRUE) => c.dbName \notin liveDBs

\* a drop of a database that was present succeeded although its terminate
\* statement had failed
C39_Witness ==
    \E p \in Procs :
        /\ Returned(p, "pg.DropDatabase")
        /\ call[p].dbName \in call[p].pre.liveDBs
        /\ Did(call[p], "pg.terminate", FALSE)
        /\ Did(call[p], "pg.dropUser", TRUE)
        /\ call[p].res = OK

\* ---- CreateProject calls of two callers, interleaved
InitCreateProjects == Constructed /\ active = Procs

CreateProjectStep(p) == BeginCreateProject(p) \/ CpGet(p) \/ CpCreate(p)

NextCreateProjects == \E p \in Procs : CreateProjectStep(p)

SpecCreateProjects == InitCreateProjects /\ [][NextCreateProjects]_vars

\* the error of a CreateProject whose INSERT met the UNIQUE constraint
ErrInsertExists ==
    Wrap("failed to create project",
         Wrap("failed to create project", "UNIQUE constraint failed"))

\* C33: no two projects in the store have the same name, whatever the
\* interleaving of CreateProject calls; a CreateProject with a valid name that
\* met no unavailable store fails with the already-exists error when the
\* project was in the store when it was called, succeeds only when it was
\* not, fails otherwise only because a concurrent call inserted the name
\* first, and leaves the name in the store.
C33_ProjectNamesUnique ==
    /\ \A q, r \in projects : q.name = r.name => q = r
    /\ \A p \in Procs :
        LET c   == call[p]
            was == \E q \in c.pre.projects : q.name = c.project IN
        (/\ Returned(p, "CreateProject")
         /\ ValidateName(c.project) = OK
         /\ \A i \in DOMAIN c.trace : ~c.trace[i].ok => c.res = ErrInsertExists)
        => /\ was => c.res = ErrProjectExists(c.project)
           /\ c.res = OK => ~was
           /\ c.res \in {OK, ErrProjectExists(c.project), ErrInsertExists}
           /\ \E q \in projects : q.name = c.project

\* the second of two racing calls: it found no project and its insert was
\* rejected
C33_Witness ==
    \E p \in Procs :
        /\ Returned(p, "CreateProject")
        /\ call[p].res = ErrInsertExists
        /\ \A q \in call[p].pre.projects : q.name # call[p].project

\* ---- DeleteProject on a store that holds two projects
\* project app with a dev and a PR database, project web with a dev database,
\* as CreateProject and CreateDatabase calls leave them
DeleteProjectRows ==
    {[id |-> 1, project_id |-> 1, name |-> DatabaseName("app", "dev", {}),
      user_name |-> UserName(DatabaseName("app", "dev", {})), password |-> GeneratePassword(0),
      env |-> "dev", pr_number |-> {}, created_at |-> 0, expires_at |-> {}],
     [id |-> 2, project_id |-> 1, name |-> DatabaseName("app", "pr", {1}),
      user_name |-> UserName(DatabaseName("app", "pr", {1})), password |-> GeneratePassword(1),
      env |-> "pr", pr_number |-> {1}, created_at |-> 0, expires_at |-> {0 + DefaultTTL}],
     [id |-> 3, project_id |-> 2, name |-> DatabaseName("web", "dev", {}),
      user_name |-> UserName(DatabaseName("web", "dev", {})), password |-> GeneratePassword(2),
      env |-> "dev", pr_number |-> {}, created_at |-> 1, expires_at |-> {}]}

InitDeleteProject ==
    /\ projects \in {{[id |-> 1, name |-> "app"], [id |-> 2, name |-> "web"]},
                     {[id |-> 1, name |-> "app"]}}
    /\ nextPID = 3
    /\ databases = {d \in DeleteProjectRows : \E q \in projects : q.id = d.project_id}
    /\ nextDBID = 4
    /\ liveDBs = NamesOf(databases)
    /\ roles = [u \in {d.user_name : d \in databases} |->
                  (CHOOSE d \in databases : d.user_name = u).password]
    /\ now = 1
    /\ active = {1}
    /\ ncalls = 0
    /\ draws = 3
    /\ call = [p \in Procs |-> NoCall]

DeleteProjectStep(p) ==
    \/ BeginDeleteProject(p) \/ DpGet(p) \/ DpList(p) \/ DpDelete(p)
    \/ PgTerminateStep(p) \/ PgDropDbStep(p) \/ PgDropUserStep(p)

NextDeleteProject == \E p \in Procs : DeleteProjectStep(p)

SpecDeleteProject == InitDeleteProject /\ [][NextDeleteProject]_vars

\* C34: once the store's DeleteProject(name) has succeeded, the project and
\* every database record it owned are gone from the store, the list it
\* returned holds exactly the records the project owned, and the other
\* projects and their records are as they were.
C34_DeleteProjectFrame ==
    \A p \in Procs :
        LET c     == call[p]
            owned == {d \in c.pre.databases : \E q \in c.proj : d.project_id = q.id} IN
        (c.op = "DeleteProject" /\ c.delDone)
        => /\ \A q \in projects : q.name # c.project
           /\ \A d \in databases : \A q \in c.proj : d.project_id # q.id
           /\ c.returned = owned
           /\ projects = c.pre.projects \ c.proj
           /\ databases = c.pre.databases \ owned

\* project app was deleted with its two records while web kept its own
C34_Witness ==
    \E p \in Procs :
        /\ Returned(p, "DeleteProject")
        /\ call[p].delDone
        /\ Cardinality(call[p].returned) = 2
        /\ \E d \in databases : d.name = DatabaseName("web", "dev", {})

\* ---- the HTTP API: routes and the bearer-token middleware
\* cfg.API.Token as bytes, cfg.API.RequireToken
APIToken == <<"s", "e", "c">>
APIRequireToken == TRUE

BearerPrefix == <<"B", "e", "a", "r", "e", "r", " ">>

TrimPrefix(cs, prefix) ==
    IF HasPrefix(cs, prefix) THEN SubSeq(cs, Len(prefix) + 1, Len(cs)) ELSE cs

validateToken_Prefix(provided, expected, requireToken) ==
    IF expected = <<>>
    THEN [valid |-> ~requireToken, tokenNotConfigured |-> requireToken]
    ELSE [valid |-> HasPrefix(provided, expected), tokenNotConfigured |-> FALSE]

\* subtle.ConstantTimeCompare(provided, expected) == 1: equal bytes
validateToken(provided, expected, requireToken) ==
    IF expected = <<>>
    THEN [valid |-> ~requireToken, tokenNotConfigured |-> requireToken]
    ELSE [valid |-> provided = expected, tokenNotConfigured |-> FALSE]

PassToNext(status) == [status |-> status, message |-> ""]

WriteError(status, message) == [status |-> status, message |-> message]

\* the middleware's reply, or status "next" when it calls next.ServeHTTP;
\* authHeader is r.Header.Get("Authorization"), empty when the header is absent
authMiddleware(path, authHeader) ==
    IF path = "/api/health" THEN PassToNext("next")
    ELSE IF authHeader = <<>>
    THEN WriteError("401", "missing authorization header")
    ELSE IF ~HasPrefix(authHeader, BearerPrefix)
    THEN WriteError("401", "invalid authorization header format")
    ELSE LET v == validateToken(TrimPrefix(authHeader, BearerPrefix),
                                APIToken, APIRequireToken) IN
         IF v.tokenNotConfigured THEN WriteError("503", "API token not configured")
         ELSE IF ~v.valid THEN WriteError("401", "invalid token")
         ELSE PassToNext("next")

Routes == {"GET /api/health", "POST /api/projects", "DELETE /api/projects/app"}

URLPath(route) ==
    CASE route = "GET /api/health" -> "/api/health"
      [] route = "POST /api/projects" -> "/api/projects"
      [] route = "DELETE /api/projects/app" -> "/api/projects/app"

\* /api/health is registered on the root router; the routes in r.Route("/api")
\* are behind the middleware if a token is configured
setupRoutes(route, authHeader) ==
    IF route = "GET /api/health" \/ APIToken = <<>> THEN PassToNext("next")
    ELSE authMiddleware(URLPath(route), authHeader)

\* Authorization headers: absent, and every scheme in front of every token
HeaderInputs ==
    {<<>>}
    \cup {scheme \o token :
            scheme \in {BearerPrefix, <<>>, <<"B", "e", "a", "r", "e", "r">>,
                        <<"b", "e", "a", "r", "e", "r", " ">>,
                        <<"B", "a", "s", "i", "c", " ">>},
            token \in {APIToken, <<>>, <<"s", "e">>, <<"s", "e", "c", "x">>,
                       <<"x", "y", "z">>, <<" ", "s", "e", "c">>}}

InitAuth == Constructed /\ active = {1}

\* a request arrives: the call's project is the route, todo the header
ServeHTTP(p) ==
    \E route \in Routes, authHeader \in HeaderInputs :
        LET c == [NewCall("ServeHTTP", route, "", {}, "handler", Snapshot)
                  EXCEPT !.todo = authHeader]
            reply == setupRoutes(route, authHeader) IN
        Begin(p, IF reply.status = "next" THEN c
                 ELSE Return(Log(c, "writeError", reply.message, FALSE), reply.status))

\* the route's handler: healthHandler answers, createProject and
\* deleteProject call the Manager
Handle(p) ==
    /\ At(p, "handler")
    /\ LET c == call[p] IN
       CASE c.project = "GET /api/health" -> Set(p, Return(c, "200"))
         [] c.project = "POST /api/projects" ->
              \E name \in ProjectNames :
                Set(p, CpValidate(NewCall("CreateProject", name, "", {}, "cp_get", Snapshot)))
         [] c.project = "DELETE /api/projects/app" ->
              Set(p, NewCall("DeleteProject", "app", "", {}, "dp_get", Snapshot))
    /\ UNCHANGED <<storeVars, engineVars, frameVars>>

AuthStep(p) ==
    \/ ServeHTTP(p) \/ Handle(p)
    \/ CpGet(p) \/ CpCreate(p)
    \/ DpGet(p) \/ DpList(p) \/ DpDelete(p)

NextAuth == \E p \in Procs : AuthStep(p)

SpecAuth == InitAuth /\ [][NextAuth]_vars

\* the header is missing, lacks the "Bearer " prefix, or carries another token
\* than the configured one
BadCredentials(authHeader) ==
    \/ authHeader = <<>>
    \/ Len(authHeader) < 7
    \/ SubSeq(authHeader, 1, 7) # <<"B", "e", "a", "r", "e", "r", " ">>
    \/ SubSeq(authHeader, 8, Len(authHeader)) # APIToken

\* C35: with an API token configured, a request to a route under /api other
\* than /api/health whose Authorization header is missing, lacks the
\* "Bearer " prefix or carries a token different from the configured one is
\* answered 401 without reaching a handler or the Manager; /api/health is
\* answered whatever the header.
C35_BadCredentialsRejected ==
    \A p \in Procs :
        LET c == call[p] IN
        (c.op = "ServeHTTP" /\ APIToken # <<>>)
        => /\ (c.project # "GET /api/health" /\ BadCredentials(c.todo))
              => /\ c.pc = "ret"
                 /\ c.res = "401"
                 /\ Snapshot = c.pre
           /\ (c.project = "GET /api/health" /\ c.pc = "ret") => c.res = "200"

\* a request with a longer token than the configured one was answered 401,
\* after an earlier request had created a project
C35_Witness ==
    \E p \in Procs :
        /\ Returned(p, "ServeHTTP")
        /\ call[p].project = "POST /api/projects"
        /\ call[p].todo = BearerPrefix \o <<"s", "e", "c", "x">>
        /\ call[p].res = "401"
        /\ \E q \in projects : q.name = "web"

\* C36: when CreateDatabase returns success, the live login role carries the
\* password that the call generated and stored in the metadata record, also
\* when a role of that name was on the cluster before the call.
C36_RolePasswordMatches ==
    \A p \in Procs :
        LET c == call[p] IN
        (Returned(p, "CreateDatabase") /\ c.res = OK)
        => /\ c.userName \in DOMAIN roles
           /\ roles[c.userName] = c.password
           /\ \E d \in databases : d.name = c.dbName /\ d.password = c.password

\* C37: every database record references a project that is in the store, and
\* once the calls have returned, a CreateDatabase whose project a concurrent
\* DeleteProject removed has left neither a record nor a live database for
\* that project; stated for calls in which no statement failed other than
\* the insert of the record.
C37_NothingLeftForDeletedProject ==
    /\ \A d \in databases : \E q \in projects : q.id = d.project_id
    /\ (\A p \in Procs :
           /\ call[p].pc \in {"idle", "ret"}
           /\ \A i \in DOMAIN call[p].trace :
                 call[p].trace[i].ok \/ call[p].trace[i].ev = "store.CreateDatabase")
       => \A p \in Procs :
            LET c == call[p] IN
            (/\ Returned(p, "CreateDatabase")
             /\ c.proj # {}
             /\ c.proj \cap projects = {})
            => /\ c.dbName \notin liveDBs
               /\ \A d \in databases : d.name # c.dbName

\* ---- a Cleanup of caller 1 while caller 2 deletes the expired PR database
\* and creates it again
InitCleanupRace ==
    Populated({d \in CleanupRows : d.id = 1}) /\ now = 2 /\ active = Procs

BeginRace(p) ==
    /\ p \in active
    /\ ncalls' = ncalls + 1
    /\ CASE p = 1 ->
              /\ call[p].pc = "idle"
              /\ \E olderThan \in OlderThanInputs :
                   Set(p, [NewCall("Cleanup", "", "pr", {}, "cl_exp", Snapshot)
                           EXCEPT !.olderThan = olderThan, !.t0 = now])
         [] p = 2 /\ call[p].pc = "idle" ->
              Set(p, DdValidate(NewCall("DeleteDatabase", "app", "pr", {1},
                                        "dd_getproj", Snapshot)))
         [] p = 2 /\ call[p].pc # "idle" ->
              /\ Returned(p, "DeleteDatabase")
              /\ Set(p, CdValidate(NewCall("CreateDatabase", "app", "pr", {1},
                                           "cd_getproj", Snapshot)))
    /\ UNCHANGED <<storeVars, engineVars, now, active, draws>>

CleanupRaceStep(p) ==
    \/ BeginRace(p)
    \/ ClGetExpired(p) \/ ClGetOldPR(p) \/ ClDelete(p)
    \/ DdGetProject(p) \/ DdGetDatabase(p) \/ DdDelete(p)
    \/ CdGetProject(p) \/ CdGetDatabase(p) \/ CdStore(p)
    \/ PgCreateUserStep(p) \/ PgCreateDbStep(p) \/ PgGrantStep(p)
    \/ PgTerminateStep(p) \/ PgDropDbStep(p) \/ PgDropUserStep(p)

NextCleanupRace == \E p \in Procs : CleanupRaceStep(p)

SpecCleanupRace == InitCleanupRace /\ [][NextCleanupRace]_vars

\* C38: a step of a Cleanup drops the live database of a record, or deletes a
\* record, only if at that moment the record is expired or is a PR record
\* older than olderThan; a database that other calls deleted and created
\* again after the Cleanup gathered its candidates is left in place.
C38_CleanupSparesRecreated ==
    [][\A p \in Procs :
          (call[p].op = "Cleanup" /\ call'[p] # call[p])
          => \A d \in databases :
                (d \notin databases' \/ (d.name \in liveDBs /\ d.name \notin liveDBs'))
                => (ExpiredAt(d, now) \/ OldPRAt(d, call[p].olderThan, now))]_vars

=============================================================================
